---- MODULE Spec2Model ----
(***************************************************************************)
(* Model of the competitive-intelligence service: the Redis result cache   *)
(* (redis_cache.py), the three-stage multi-agent orchestrators             *)
(* (ci_agent.py, enhanced_ci_agent.py, enhanced_ci_agent_with_modes.py)    *)
(* and the streaming endpoints that run them on the asyncio event loop     *)
(* (app.py, enhanced_app.py, enhanced_app_with_modes.py).                  *)
(***************************************************************************)
EXTENDS Integers, Sequences, FiniteSets, TLC

VARIABLES
    now,        \* wall clock, in seconds
    cfg,        \* RedisCache fields: enabled, default_ttl, analysis_ttl
    backendUp,  \* whether the Redis server answers the next command
    redis,      \* the Redis keyspace: key -> [val: JSON text, exp: expiry time,
                \*   src: the Python value that was handed to set (history)]
    ret,        \* the last direct cache operation and what it returned: [op, val]
    runs,       \* the orchestrator workflow activations, one record per slot
    calls,      \* every agent invocation so far, in order: [run, agent, input, ok]
    sess,       \* streaming_sessions[session_id] of the streaming run (or NoSession)
    queue,      \* events_queue of the streaming run
    ready,      \* the event loop's FIFO of ready callbacks
    cons,       \* where the consumer (the generator's drain loop) stands
    client,     \* the events written to the client stream, in order
    emitted,    \* the events the orchestrator handed to stream_callback, in order
    lastEmit,   \* the time of the consumer's last write to the client
    task,       \* where the orchestrator task run_analysis stands
    deadline,   \* when the consumer's wait_for(events_queue.get(), 1.0) times out
    sessions,   \* streaming_sessions: session id -> [status, start, result]
    gen,        \* the streaming requests followed from arrival to purge: where
                \*   each one's generator and its cleanup task stand
    http,       \* the requests of the analysis endpoints, in order, each with
                \*   the status of its response (0 until it is answered)
    query_cache \* CompetitiveIntelligenceRAG.query_cache: the cached responses
                \*   in the order the dict keeps them, each [key, response]

vars == <<now, cfg, backendUp, redis, ret, runs, calls,
          sess, queue, ready, cons, client, emitted, lastEmit, task, deadline,
          sessions, gen, http, query_cache>>

appVars == <<sessions, gen, http, query_cache>>

cacheVars == <<cfg, backendUp, redis>>
streamVars ==
    <<sess, queue, ready, cons, client, emitted, lastEmit, task, deadline>>

----------------------------------------------------------------------------
(* Bounds of the model *)

MaxNow == 3
MaxToolCalls == 1

----------------------------------------------------------------------------
(* Python values.  A str is a sequence of chunks: the letters "A" (upper   *)
(* case), "a", "b", the blank " ", and opaque lower-case tokens.           *)

PStr(s) == <<"str", s>>
PNone == <<"none", <<>>>>
PInt(n) == <<"int", n>>
PDict(f) == <<"dict", f>>
PList(q) == <<"list", q>>
PBool(b) == <<"bool", b>>
PObj(s) == <<"obj", s>>

\* {}
EmptyDict == PDict([k \in {} |-> PNone])

IsNone(v) == v[1] = "none"

\* bool(v) of a Python value
Truthy(v) ==
    CASE v[1] = "none" -> FALSE
      [] v[1] = "str"  -> v[2] # <<>>
      [] v[1] = "int"  -> v[2] # 0
      [] v[1] = "bool" -> v[2]
      [] v[1] = "dict" -> DOMAIN v[2] # {}
      [] v[1] = "list" -> v[2] # <<>>
      [] OTHER         -> TRUE

LowerChunk(c) == IF c = "A" THEN "a" ELSE IF c = "B" THEN "b" ELSE c

\* str.lower()
Lower(s) == [i \in 1..Len(s) |-> LowerChunk(s[i])]

RECURSIVE LStrip(_)
LStrip(s) == IF s # <<>> /\ Head(s) = " " THEN LStrip(Tail(s)) ELSE s

RECURSIVE RStrip(_)
RStrip(s) ==
    IF s # <<>> /\ s[Len(s)] = " " THEN RStrip(SubSeq(s, 1, Len(s) - 1)) ELSE s

\* str.strip()
Strip(s) == RStrip(LStrip(s))

\* datetime.now().isoformat()
IsoFormat(t) == PStr(<<ToString(t)>>)

----------------------------------------------------------------------------
(* json.dumps(v, default=str) and json.loads, on a document model of the   *)
(* JSON text: jstr, jnum, jnull, jobj, jarr.                               *)

RECURSIVE json_dumps(_)
json_dumps(v) ==
    CASE v[1] = "str"  -> <<"jstr", v[2]>>
      [] v[1] = "int"  -> <<"jnum", v[2]>>
      [] v[1] = "bool" -> <<"jbool", v[2]>>
      [] v[1] = "none" -> <<"jnull", <<>>>>
      [] v[1] = "dict" -> <<"jobj", [k \in DOMAIN v[2] |-> json_dumps(v[2][k])]>>
      [] v[1] = "list" -> <<"jarr", [i \in 1..Len(v[2]) |-> json_dumps(v[2][i])]>>
      [] OTHER         -> <<"jstr", v[2]>>

RECURSIVE json_loads(_)
json_loads(j) ==
    CASE j[1] = "jstr"  -> PStr(j[2])
      [] j[1] = "jnum"  -> PInt(j[2])
      [] j[1] = "jbool" -> PBool(j[2])
      [] j[1] = "jnull" -> PNone
      [] j[1] = "jobj"  -> PDict([k \in DOMAIN j[2] |-> json_loads(j[2][k])])
      [] OTHER          -> PList([i \in 1..Len(j[2]) |-> json_loads(j[2][i])])

----------------------------------------------------------------------------
(* RedisCache *)

\* a key that tells requests apart by their prefix only
generate_cache_key_prefix(prefix, data) == <<"ci", prefix, <<"jnull", <<>>>>>>

\* _generate_cache_key: the md5 digest is taken as collision-free, so the
\* digested text stands for the digest.
generate_cache_key(prefix, data) ==
    <<"ci", prefix, IF data[1] = "dict" THEN json_dumps(data) ELSE data>>

\* A key the server still holds: set and not yet expired.
Live(db, k, t) == k \in DOMAIN db /\ t < db[k].exp

\* setex keeping the key for twice its time to live
Setex_twice(db, k, ttl, text, t, src) ==
    [x \in DOMAIN db \cup {k} |->
        IF x = k THEN [val |-> text, exp |-> t + 2 * ttl, src |-> src] ELSE db[x]]

\* redis_client.setex(key, ttl, text); src records the value serialized
Setex(db, k, ttl, text, t, src) ==
    [x \in DOMAIN db \cup {k} |->
        IF x = k THEN [val |-> text, exp |-> t + ttl, src |-> src] ELSE db[x]]

\* redis_client.delete(key)
Del(db, k) == [x \in DOMAIN db \ {k} |-> db[x]]

Connected == cfg.enabled

\* RedisCache.get: the value returned
cache_get(key) ==
    IF ~Connected THEN PNone
    ELSE IF ~backendUp THEN PNone
    ELSE IF Live(redis, key, now) THEN json_loads(redis[key].val)
    ELSE PNone

\* the default TTL used whatever TTL the caller passed
EffectiveTtl_default(ttl) == cfg.default_ttl

\* ttl or self.default_ttl
EffectiveTtl(ttl) == IF ttl = 0 THEN cfg.default_ttl ELSE ttl

\* set without its check of enabled and redis_client
cache_set_unguarded(key, data, ttl) ==
    IF ~backendUp \/ EffectiveTtl(ttl) <= 0
    THEN [ret |-> FALSE, raised |-> "AttributeError", db |-> redis]
    ELSE [ret |-> TRUE, raised |-> "",
          db |-> Setex(redis, key, EffectiveTtl(ttl),
                       json_dumps(PDict([data |-> data,
                                         cached_at |-> IsoFormat(now),
                                         ttl |-> PInt(EffectiveTtl(ttl))])),
                       now, data)]

\* RedisCache.set: [ret, raised, db].  A backend error inside the try block
\* reaches "except (redis.RedisError, json.JSONEncodeError)"; the json
\* module has no JSONEncodeError, so evaluating the clause raises
\* AttributeError out of set.
cache_set(key, data, ttl) ==
    IF ~Connected THEN [ret |-> FALSE, raised |-> "", db |-> redis]
    ELSE IF ~backendUp \/ EffectiveTtl(ttl) <= 0
    THEN [ret |-> FALSE, raised |-> "AttributeError", db |-> redis]
    ELSE [ret |-> TRUE, raised |-> "",
          db |-> Setex(redis, key, EffectiveTtl(ttl),
                       json_dumps(PDict([data |-> data,
                                         cached_at |-> IsoFormat(now),
                                         ttl |-> PInt(EffectiveTtl(ttl))])),
                       now, data)]

\* RedisCache.delete: [ret, db]
cache_delete(key) ==
    IF ~Connected THEN [ret |-> FALSE, db |-> redis]
    ELSE IF ~backendUp THEN [ret |-> FALSE, db |-> redis]
    ELSE [ret |-> Live(redis, key, now), db |-> Del(redis, key)]

\* the key built from the lower-cased name, surrounding blanks kept
AnalysisKey_unstripped(competitor_name, competitor_website) ==
    generate_cache_key("analysis",
        PDict([competitor |-> PStr(Lower(competitor_name[2])),
               website |-> competitor_website]))

\* key_data and cache_key of get_analysis and set_analysis
AnalysisKey(competitor_name, competitor_website) ==
    generate_cache_key("analysis",
        PDict([competitor |-> PStr(Strip(Lower(competitor_name[2]))),
               website |-> competitor_website]))

\* get_analysis returning the stored wrapper instead of its "data" field
get_analysis_wrapper(competitor_name, competitor_website) ==
    cache_get(AnalysisKey(competitor_name, competitor_website))

\* RedisCache.get_analysis
get_analysis(competitor_name, competitor_website) ==
    LET cached_result == cache_get(AnalysisKey(competitor_name, competitor_website))
    IN  IF Truthy(cached_result) /\ "data" \in DOMAIN cached_result[2]
        THEN cached_result[2]["data"]
        ELSE PNone

\* set_analysis storing with the default time to live
set_analysis_default(competitor_name, analysis_result, competitor_website) ==
    cache_set(AnalysisKey(competitor_name, competitor_website),
              analysis_result, cfg.default_ttl)

\* RedisCache.set_analysis
set_analysis(competitor_name, analysis_result, competitor_website) ==
    cache_set(AnalysisKey(competitor_name, competitor_website),
              analysis_result, cfg.analysis_ttl)

----------------------------------------------------------------------------
(* Inputs *)

\* competitor names: "A" reads "Acme", "a" reads "acme", "b" reads "beta"
Names == {PStr(<<"A">>), PStr(<<"a", " ">>), PStr(<<"b">>)}

\* competitor_website: absent, or a URL
Websites == {PNone, PStr(<<"w">>)}

\* what an agent answers: str(response)
Texts == {PStr(<<"x">>), PStr(<<"y">>)}

\* what the analyst answers; "T3" reads "... Competitive Threat Level: 3 ..."
Analyses == {PStr(<<"T3">>)}

\* what the writer answers
Reports == {PStr(<<"r">>)}

\* REDIS_DEFAULT_TTL and REDIS_ANALYSIS_TTL, as the environment sets them
TtlConfigs == {[default_ttl |-> 1, analysis_ttl |-> 2]}

NoOp == [op |-> "none", val |-> PNone]

\* no entry in streaming_sessions
NoSession == [status |-> "none", result |-> PNone]

\* the events of a stream besides those of the workflow
StreamEvent(type, data) == [type |-> type, step |-> "", seq |-> 0, data |-> data]
NoEvent == StreamEvent("", PNone)
SessionStart == StreamEvent("session_start", PNone)
Heartbeat == StreamEvent("heartbeat", PNone)
\* events_queue.put(None): the end-of-stream signal
Sentinel == StreamEvent("None", PNone)

\* What re.search(label + r":\s*(\d+)") finds in a chunk of an analysis text:
\* "T3" reads "Competitive Threat Level: 3", "M7" "Market Position Score: 7",
\* "I6" "Innovation Score: 6", "F4" "Financial Strength: 4", "B9" "Brand
\* Recognition: 9", "S8" "Strengths: 8", "W2" "Weaknesses: 2", "O5"
\* "Opportunities: 5", "H1" "Threats: 1"; "S!" reads "Strengths: " before
\* more digits than int() converts (ValueError); a chunk such as "T-"
\* ("Competitive Threat Level: high") or "x" matches no pattern.
MetricReading(c) ==
    CASE c = "T3" -> [field |-> "threat_level", value |-> 3]
      [] c = "T5" -> [field |-> "threat_level", value |-> 5]
      [] c = "M7" -> [field |-> "market_position", value |-> 7]
      [] c = "I6" -> [field |-> "innovation", value |-> 6]
      [] c = "F4" -> [field |-> "financial_strength", value |-> 4]
      [] c = "B9" -> [field |-> "brand_recognition", value |-> 9]
      [] c = "S8" -> [field |-> "strengths", value |-> 8]
      [] c = "S!" -> [field |-> "strengths", value |-> -1]
      [] c = "W2" -> [field |-> "weaknesses", value |-> 2]
      [] c = "O5" -> [field |-> "opportunities", value |-> 5]
      [] c = "H1" -> [field |-> "threats", value |-> 1]
      [] OTHER    -> [field |-> "", value |-> 0]

\* the fields in the order extract_metrics_from_analysis looks for them
MetricFields ==
    <<"threat_level", "market_position", "innovation", "financial_strength",
      "brand_recognition", "strengths", "weaknesses", "opportunities", "threats">>

\* the fields of metrics["competitive_metrics"]; the others go to swot_scores
CompetitiveFields ==
    {"threat_level", "market_position", "innovation", "financial_strength",
     "brand_recognition"}

\* re.search: the first match of the field's pattern in the text, 0 if none
FirstMatch(text, f) ==
    LET found == {i \in 1..Len(text) : MetricReading(text[i]).field = f}
    IN  IF found = {} THEN 0
        ELSE CHOOSE i \in found : \A j \in found : i <= j

\* int(match.group(1)) of the field's first match
MetricValue(text, f) == MetricReading(text[FirstMatch(text, f)]).value

\* the positions in MetricFields that are reached and set: the first field
\* whose int() raises ends the try block
Extracted(text) ==
    {k \in 1..Len(MetricFields) :
        /\ FirstMatch(text, MetricFields[k]) # 0
        /\ \A j \in 1..k : FirstMatch(text, MetricFields[j]) # 0
                           => MetricValue(text, MetricFields[j]) >= 0}

\* extract_metrics_from_analysis setting every field, 0 where no match
extract_metrics_from_analysis_defaults(analysis_text) ==
    LET text == analysis_text[2]
        value(f) == IF FirstMatch(text, f) = 0 THEN PInt(0)
                    ELSE PInt(MetricValue(text, f))
    IN  PDict([competitive_metrics |->
                   PDict([f \in CompetitiveFields |-> value(f)]),
               swot_scores |->
                   PDict([f \in {MetricFields[k] : k \in 1..Len(MetricFields)}
                                \ CompetitiveFields |-> value(f)]),
               raw_analysis |-> analysis_text])

\* extract_metrics_from_analysis
extract_metrics_from_analysis(analysis_text) ==
    LET text == analysis_text[2]
        set == {MetricFields[k] : k \in Extracted(text)}
    IN  PDict([competitive_metrics |->
                   PDict([f \in set \cap CompetitiveFields |->
                             PInt(MetricValue(text, f))]),
               swot_scores |->
                   PDict([f \in set \ CompetitiveFields |->
                             PInt(MetricValue(text, f))]),
               raw_analysis |-> analysis_text])

\* the payloads the callers of set_analysis store: a workflow's result dict
Payloads ==
    {PDict([competitor |-> PStr(<<"A">>), website |-> PNone,
            final_report |-> t,
            metrics |-> extract_metrics_from_analysis(PStr(<<"T3">>)),
            status |-> PStr(<<"success">>)]) : t \in Texts}

----------------------------------------------------------------------------
(* Direct use of the cache: one action per RedisCache operation *)

Op(op, val) == [op |-> op, val |-> val]

DoSetAnalysis(name, website, payload) ==
    LET r == set_analysis(name, payload, website)
    IN  /\ redis' = r.db
        /\ ret' = Op("set_analysis",
                     IF r.raised # "" THEN PStr(<<r.raised>>)
                     ELSE IF r.ret THEN PInt(1) ELSE PInt(0))
        /\ UNCHANGED <<now, cfg, backendUp, runs, calls>>
        /\ UNCHANGED streamVars
        /\ UNCHANGED appVars

DoGetAnalysis(name, website) ==
    /\ ret' = Op("get_analysis", get_analysis(name, website))
    /\ UNCHANGED <<now, cfg, backendUp, redis, runs, calls>>
    /\ UNCHANGED streamVars
    /\ UNCHANGED appVars

DoDelete(name, website) ==
    LET r == cache_delete(AnalysisKey(name, website))
    IN  /\ redis' = r.db
        /\ ret' = Op("delete",
                     IF r.ret THEN PInt(1) ELSE PInt(0))
        /\ UNCHANGED <<now, cfg, backendUp, runs, calls>>
        /\ UNCHANGED streamVars
        /\ UNCHANGED appVars

\* the keys of db whose time to live has not elapsed at time t
Unexpired(db, t) == [k \in {x \in DOMAIN db : t < db[x].exp} |-> db[k]]

\* the clock advances one second; the server drops the keys that expire.
\* Time passes while the orchestrator task occupies the loop thread or
\* while the loop has nothing ready; a consumer then waiting in wait_for
\* past its deadline is resumed with TimeoutError.
Tick ==
    /\ now < MaxNow
    /\ task = "running" \/ (ready = <<>> /\ cons # "run")
    /\ now' = now + 1
    /\ redis' = Unexpired(redis, now + 1)
    /\ IF cons = "wait" /\ task # "running" /\ now + 1 >= deadline
       THEN /\ cons' = "woken"
            /\ ready' = Append(ready, [k |-> "cons", ev |-> NoEvent, why |-> "timeout"])
       ELSE UNCHANGED <<cons, ready>>
    /\ UNCHANGED <<cfg, backendUp, ret, runs, calls>>
    /\ UNCHANGED <<sess, queue, client, emitted, lastEmit, task, deadline>>
    /\ UNCHANGED appVars

\* the Redis server becomes unreachable, or reachable again
BackendFlip ==
    /\ cfg.enabled
    /\ backendUp' = ~backendUp
    /\ UNCHANGED <<now, cfg, redis, ret, runs, calls>>
    /\ UNCHANGED streamVars
    /\ UNCHANGED appVars

----------------------------------------------------------------------------
(* The analysis cache as the workflows use it: what is stored under        *)
(* (name, website) is the result dict of the request for that name and     *)
(* website.                                                                *)

\* at most this many keys are held at a time
MaxKeys == 2

\* competitor_website: absent, empty, a URL ("w"), the URL spelt with a
\* capital ("W")
KeyWebsites == {PNone, PStr(<<>>), PStr(<<"w">>), PStr(<<"W">>)}

\* the result dict of a successful run for (name, website)
StoredResult(name, website) ==
    PDict([competitor |-> name, website |-> website,
           final_report |-> PStr(<<"r">>),
           metrics |-> extract_metrics_from_analysis(PStr(<<"T3">>)),
           status |-> PStr(<<"success">>)])

\* cache.set_analysis(competitor_name, result, competitor_website) at the
\* end of a run
DoStoreResult(name, website) ==
    /\ \/ AnalysisKey(name, website) \in DOMAIN redis
       \/ Cardinality(DOMAIN redis) < MaxKeys
    /\ DoSetAnalysis(name, website, StoredResult(name, website))

----------------------------------------------------------------------------
(* RedisCache called with keys of the caller's choice, as                  *)
(* setup_redis.py's test_cache_functionality does: set, get, delete, and   *)
(* the maintenance operations clear_competitor_cache and get_cache_stats.  *)

\* RedisCache.__init__ and _connect: caching is on when REDIS_ENABLED says
\* so and the server answered the ping; any exception of _connect turns it
\* off and drops the client
connect(configured, reachable) == configured /\ reachable

\* test_key = "ci:test:setup", and a second key
RawKeys == {<<"ci", "test", PStr(<<"setup">>)>>, <<"ci", "test", PStr(<<"other">>)>>}

\* test_data
RawData == {PDict([test |-> PStr(<<"data">>)])}

\* the ttl argument of set; 0 stands for an omitted (None) or zero ttl
RawTtls == {0, 1, 2}

\* the names clear_competitor_cache is called with
ClearNames == Names \cup {PStr(<<"setup">>), PStr(<<"test", " ", "setup">>)}

\* s split at its " " chunks: the fragments between the "*" of the
\* pattern (a chunk is a whole word)
Fragments(s) == SelectSeq(s, LAMBDA c : c # " ")

\* the text of a key after "ci:", as chunks: the prefix, and the caller's
\* text; a digest holds hexadecimal digits only and no chunk of a name
KeyText(k) == IF k[3][1] = "str" THEN <<k[2]>> \o k[3][2] ELSE <<k[2]>>

\* the fragments occur in the text, in this order
RECURSIVE GlobMatch(_, _)
GlobMatch(frags, text) ==
    IF frags = <<>> THEN TRUE
    ELSE IF text = <<>> THEN FALSE
    ELSE IF Head(frags) = Head(text)
         THEN GlobMatch(Tail(frags), Tail(text))
         ELSE GlobMatch(frags, Tail(text))

\* redis_client.keys(f"ci:*{competitor_name.lower().replace(' ', '*')}*")
KeysMatching(db, competitor_name) ==
    {k \in DOMAIN db : GlobMatch(Fragments(Lower(competitor_name[2])), KeyText(k))}

\* RedisCache.clear_competitor_cache: [ret, db]
clear_competitor_cache(competitor_name) ==
    IF ~Connected THEN [ret |-> PInt(0), db |-> redis]
    ELSE IF ~backendUp THEN [ret |-> PInt(0), db |-> redis]
    ELSE LET keys == KeysMatching(redis, competitor_name)
         IN  [ret |-> PInt(Cardinality(keys)),
              db |-> [x \in DOMAIN redis \ keys |-> redis[x]]]

\* the names the analysis cache is cleared for: those of the requests, and
\* the word that is the prefix of every analysis key
ClearTargets == Names \cup {PStr(<<"analysis">>)}

\* deleted = cache.clear_competitor_cache(name), on the analysis cache
DoClearCompetitor(name) ==
    LET r == clear_competitor_cache(name)
    IN  /\ redis' = r.db
        /\ ret' = [op |-> "clear", val |-> r.ret, name |-> name]
        /\ UNCHANGED <<now, cfg, backendUp, runs, calls>>
        /\ UNCHANGED streamVars
        /\ UNCHANGED appVars

\* the chunks of the analysis texts: a label with its number, a label
\* without one, plain text
MetricChunks ==
    {"T3", "T5", "M7", "I6", "F4", "B9", "S8", "S!", "W2", "O5", "H1", "T-", "x"}

\* the analysis texts handed to extract_metrics_from_analysis: the empty
\* text, every chunk alone, and pairs in which a label comes twice, a
\* number is rejected before or after another label, or nothing matches
MetricTexts ==
    {PStr(<<>>)} \cup {PStr(<<c>>) : c \in MetricChunks}
    \cup {PStr(<<c, e>>) : c \in {"T3", "T5", "S!", "x"},
                           e \in {"T3", "T5", "S!", "M7", "H1", "x"}}

\* metrics = extract_metrics_from_analysis(analysis_text)
DoExtractMetrics(analysis_text) ==
    /\ ret' = [op |-> "extract_metrics",
               val |-> extract_metrics_from_analysis(analysis_text),
               text |-> analysis_text]
    /\ UNCHANGED <<now, cfg, backendUp, redis, runs, calls>>
    /\ UNCHANGED streamVars
    /\ UNCHANGED appVars

\* str(analyst_response) of the runs: no metric, two metrics, a number
\* int() rejects
MetricAnalyses == {PStr(<<"x">>), PStr(<<"T3", "S8">>), PStr(<<"S!", "M7">>)}

\* redis_client.keys("ci:<prefix>:*")
KeysOf(db, prefix) == {k \in DOMAIN db : k[2] = prefix}

\* RedisCache.get_cache_stats (the server's own figures left out)
get_cache_stats ==
    IF ~Connected
    THEN PDict([enabled |-> PBool(FALSE), error |-> PStr(<<"Redis not connected">>)])
    ELSE IF ~backendUp
    THEN PDict([enabled |-> PBool(TRUE), connected |-> PBool(FALSE),
                error |-> PStr(<<"RedisError">>)])
    ELSE PDict([enabled |-> PBool(TRUE), connected |-> PBool(TRUE),
                total_keys |-> PInt(Cardinality(DOMAIN redis)),
                analysis_cached |-> PInt(Cardinality(KeysOf(redis, "analysis"))),
                ttl_config |-> PDict([default |-> PInt(cfg.default_ttl),
                                      analysis |-> PInt(cfg.analysis_ttl)])])

\* nothing stored yet
NoStore == [key |-> <<>>, t |-> 0, ttl |-> 0]

\* before the first call
NoRawOp == [op |-> "none", val |-> PNone, key |-> <<>>, t |-> 0, stored |-> NoStore]

\* the call just made: what it was given, what it returned (or the name of
\* the exception it raised), when, and the last successful set so far
RawOp(op, key, val, stored) ==
    [op |-> op, val |-> val, key |-> key, t |-> now, stored |-> stored]

\* success = cache.set(key, data, ttl)
DoSet(key, data, ttl) ==
    LET r == cache_set(key, data, ttl)
    IN  /\ redis' = r.db
        /\ ret' = RawOp("set", key,
                        IF r.raised # "" THEN PStr(<<r.raised>>) ELSE PBool(r.ret),
                        IF r.ret
                        THEN [key |-> key, t |-> now, ttl |-> EffectiveTtl(ttl)]
                        ELSE ret.stored)
        /\ UNCHANGED <<now, cfg, backendUp, runs, calls>>
        /\ UNCHANGED streamVars
        /\ UNCHANGED appVars

\* retrieved = cache.get(key)
DoGet(key) ==
    /\ ret' = RawOp("get", key, cache_get(key), ret.stored)
    /\ UNCHANGED <<now, cfg, backendUp, redis, runs, calls>>
    /\ UNCHANGED streamVars
    /\ UNCHANGED appVars

\* cache.delete(key)
DoDel(key) ==
    LET r == cache_delete(key)
    IN  /\ redis' = r.db
        /\ ret' = RawOp("delete", key, PBool(r.ret), ret.stored)
        /\ UNCHANGED <<now, cfg, backendUp, runs, calls>>
        /\ UNCHANGED streamVars
        /\ UNCHANGED appVars

\* cache.clear_competitor_cache(name)
DoClear(name) ==
    LET r == clear_competitor_cache(name)
    IN  /\ redis' = r.db
        /\ ret' = RawOp("clear", name, r.ret, ret.stored)
        /\ UNCHANGED <<now, cfg, backendUp, runs, calls>>
        /\ UNCHANGED streamVars
        /\ UNCHANGED appVars

\* cache.get_cache_stats()
DoStats ==
    /\ ret' = RawOp("stats", <<>>, get_cache_stats, ret.stored)
    /\ UNCHANGED <<now, cfg, backendUp, redis, runs, calls>>
    /\ UNCHANGED streamVars
    /\ UNCHANGED appVars

----------------------------------------------------------------------------
(* The orchestrators.  A run is one activation of                          *)
(* run_competitive_intelligence_workflow (kind "base": ci_agent.py, kind   *)
(* "modes": enhanced_ci_agent_with_modes.py) or of                         *)
(* run_enhanced_competitive_intelligence_workflow (kind "rag":             *)
(* enhanced_ci_agent.py).                                                  *)

RunIds == {1, 2}

Modes == {"simple", "deep"}

\* niche, the focus of the base workflow: the default and one department
Niches == {"all", "it"}

\* str(e) of the exception a failing agent call raises
AgentError == PStr(<<"agent failed">>)

Failure == <<"raise", AgentError>>

\* the requests of the direct calls
FlowRequests ==
    {[kind |-> "base", name |-> PStr(<<"A">>), website |-> PNone,
      mode |-> "simple", rag |-> FALSE, niche |-> f] : f \in Niches}
    \cup
    {[kind |-> "modes", name |-> n, website |-> PNone, mode |-> m, rag |-> FALSE,
      niche |-> "all"] :
        n \in {PStr(<<"A">>), PStr(<<"b">>)}, m \in Modes}
    \cup
    {[kind |-> "rag", name |-> PStr(<<"A">>), website |-> PNone,
      mode |-> "simple", rag |-> g, niche |-> "all"] : g \in BOOLEAN}

\* the streaming requests: one per endpoint and setting
StreamRequests ==
    {r \in FlowRequests :
        r.name = PStr(<<"A">>) /\ r.mode = "simple" /\ r.niche = "all"}

\* calls of the workflow with modes that differ in the spelling of the name
NameRequests ==
    {[kind |-> "modes", name |-> n, website |-> PNone, mode |-> "simple",
      rag |-> FALSE, niche |-> "all"] : n \in Names \cup {PStr(<<" ", "A">>)}}

\* a request: which orchestrator, and the arguments of the call
Requests ==
    {[kind |-> "base", name |-> n, website |-> w, mode |-> "simple", rag |-> FALSE,
      niche |-> f] :
        n \in Names, w \in Websites, f \in Niches}
    \cup
    {[kind |-> "modes", name |-> n, website |-> w, mode |-> m, rag |-> FALSE,
      niche |-> "all"] :
        n \in Names, w \in Websites, m \in Modes}
    \cup
    {[kind |-> "rag", name |-> n, website |-> w, mode |-> "simple", rag |-> g,
      niche |-> "all"] :
        n \in Names, w \in Websites, g \in BOOLEAN}

IdleRun ==
    [pc |-> "idle", kind |-> "base", name |-> PNone, website |-> PNone,
     mode |-> "simple", rag |-> FALSE, niche |-> "all", cb |-> FALSE,
     research |-> PNone, analysis |-> PNone, report |-> PNone,
     result |-> PNone, raised |-> "",
     hit |-> FALSE, doneT |-> -1]

\* the run a call starts
NewRun(req, cb) ==
    [IdleRun EXCEPT !.pc = "check", !.kind = req.kind, !.name = req.name,
                    !.website = req.website, !.mode = req.mode,
                    !.rag = req.rag, !.niche = req.niche, !.cb = cb]

\* the name handed to the cache without the mode's suffix
CacheName_shared(run) == run.name

\* the competitor name the run hands to get_analysis and set_analysis
CacheName(run) ==
    IF run.kind = "modes" THEN PStr(run.name[2] \o <<"_", run.mode>>)
    ELSE run.name

\* the "workflow" field of a result
WorkflowTag(run) ==
    CASE run.kind = "base"  -> PStr(<<"multi_agent">>)
      [] run.kind = "modes" -> PStr(<<"multi_agent", "_", run.mode>>)
      [] OTHER -> IF run.rag THEN PStr(<<"enhanced_multi_agent_rag">>)
                  ELSE PStr(<<"enhanced_multi_agent">>)

\* f overridden and extended by g
Merge(f, g) ==
    [k \in DOMAIN f \cup DOMAIN g |-> IF k \in DOMAIN g THEN g[k] ELSE f[k]]

\* the fields a result carries besides the common ones: analysis_mode
\* (modes), rag_enabled (rag), none (base)
KindFields(run) ==
    CASE run.kind = "modes" -> [analysis_mode |-> PStr(<<run.mode>>)]
      [] run.kind = "rag"   -> [rag_enabled |-> PBool(run.rag)]
      [] OTHER              -> [k \in {} |-> PNone]

\* the result dict of a run whose three stages succeeded; rag_stored is
\* set once the RAG system has ingested the result
SuccessResult(run, final_report, rag_stored, t) ==
    PDict(Merge(Merge(
        [competitor |-> run.name,
         website |-> run.website,
         research_findings |-> run.research,
         strategic_analysis |-> run.analysis,
         final_report |-> final_report,
         metrics |-> extract_metrics_from_analysis(run.analysis),
         timestamp |-> IsoFormat(t),
         status |-> PStr(<<"success">>),
         workflow |-> WorkflowTag(run)],
        KindFields(run)),
        IF run.kind = "rag"
        THEN IF rag_stored
             THEN [industry_keywords |-> PNone, rag_stored |-> PBool(TRUE)]
             ELSE [industry_keywords |-> PNone]
        ELSE [k \in {} |-> PNone]))

\* an except branch that reports a fixed text instead of str(e)
ErrorResult_generic(run, error_msg, t) ==
    PDict([competitor |-> run.name,
           website |-> run.website,
           error |-> PStr(<<"Analysis failed">>),
           timestamp |-> IsoFormat(t),
           status |-> PStr(<<"error">>)])

\* the dict the except branch returns
ErrorResult(run, error_msg, t) ==
    PDict(Merge(
        [competitor |-> run.name,
         website |-> run.website,
         error |-> error_msg,
         timestamp |-> IsoFormat(t),
         status |-> PStr(<<"error">>),
         workflow |-> WorkflowTag(run)],
        KindFields(run)))

Status(step) == <<"status_update", step>>
ToolCall == <<"tool_call", "tool">>
\* a tool call whose input is a dict holding an object json cannot encode:
\* StreamingCallbackHandler copies a dict input into the event unchecked
ObjectToolCall == <<"tool_call", "object">>

\* the status updates of each kind of workflow, by place
HitSteps(run) ==
    IF run.kind = "base" THEN <<Status("cache_hit"), Status("cache_complete")>>
    ELSE <<Status("cache_hit")>>

StartSteps(run) == <<Status("start"), Status("info")>>

ResearchPre(run) ==
    IF run.kind = "base" THEN <<Status("research_start"), Status("info")>>
    ELSE <<Status("research_start")>>

ResearchPost(run) ==
    IF run.kind = "rag" /\ run.rag
    THEN <<Status("rag_research"), Status("research_complete")>>
    ELSE <<Status("research_complete")>>

AnalysisPre(run) ==
    IF run.kind = "base"
    THEN <<Status("analysis_start"), Status("info"), Status("info")>>
    ELSE <<Status("analysis_start")>>

AnalysisPost(run) ==
    IF run.kind = "base" THEN <<Status("info"), Status("analysis_complete")>>
    ELSE <<Status("analysis_complete")>>

ReportPre(run) ==
    CASE run.kind = "base" -> <<Status("report_start"), Status("info")>>
      [] run.kind = "rag" /\ run.rag -> <<Status("report_start"), Status("rag_context")>>
      [] OTHER -> <<Status("report_start")>>

ReportPost(run) ==
    IF run.kind = "base" THEN <<Status("complete")>>
    ELSE <<Status("complete"), Status("complete"), Status("info")>>

\* the events _send_status_update and StreamingCallbackHandler build, in order
Events(steps, base) ==
    [i \in 1..Len(steps) |->
        [type |-> steps[i][1], step |-> steps[i][2], seq |-> base + i,
         data |-> IF steps[i] = ObjectToolCall
                  THEN PDict([tool_input |-> PDict([arg |-> PObj(<<"o">>)])])
                  ELSE PNone]]

\* json.dumps(v) without default: TypeError on anything but dict, list,
\* str, int, bool and None
RECURSIVE Serializable(_)
Serializable(v) ==
    CASE v[1] = "obj"  -> FALSE
      [] v[1] = "dict" -> \A k \in DOMAIN v[2] : Serializable(v[2][k])
      [] v[1] = "list" -> \A i \in 1..Len(v[2]) : Serializable(v[2][i])
      [] OTHER         -> TRUE

\* safe_event of stream_callback: type tool_call, the message, and in
\* app.py the type of the event it stands for
CallbackFallback(kind, ev) ==
    LET safe_event == [type |-> "tool_call", step |-> "", seq |-> ev.seq,
                       data |-> PStr(<<"Non-serializable event">>)]
    IN  IF kind = "base"
        THEN Merge(safe_event, [original_type |-> ev.type])
        ELSE safe_event

\* safe_event of the drain loop: type error, the message, and in app.py the
\* type of the event it stands for
DrainFallback(kind, ev) ==
    LET safe_event == [type |-> "error", step |-> "", seq |-> ev.seq,
                       data |-> PStr(<<"Event serialization error">>)]
    IN  IF kind = "base"
        THEN Merge(safe_event, [original_type |-> ev.type])
        ELSE safe_event

\* stream_callback of generate_stream: each event is checked to be JSON
\* serializable, a fallback is made for one that is not, and the put is
\* handed to the loop with asyncio.create_task
stream_callback(kind, rdy, evs) ==
    rdy \o [i \in 1..Len(evs) |->
               [k |-> "put",
                ev |-> IF Serializable(evs[i].data) THEN evs[i]
                       ELSE CallbackFallback(kind, evs[i]),
                why |-> ""]]

\* the run hands the events of steps to its stream_callback, if it has one
Emit(r, steps) ==
    IF runs[r].cb
    THEN /\ emitted' = emitted \o Events(steps, Len(emitted))
         /\ ready' = stream_callback(runs[r].kind, ready, Events(steps, Len(emitted)))
    ELSE UNCHANGED <<emitted, ready>>

Tools(n) == [i \in 1..n |-> ToolCall]

\* the tool calls an agent may make in one invocation
ToolSeqs(n) == [1..n -> {ToolCall, ObjectToolCall}]

\* one call of an agent: which run made it, what it was given, whether it
\* returned
Invocation(r, agent, input, ok) ==
    [run |-> r, agent |-> agent, input |-> input, ok |-> ok]

\* a direct call of the workflow method on an orchestrator that was built
\* without stream_callback; the calls follow one another (building the
\* orchestrator is part of TaskStart, where the endpoints do it)
Call(r, req) ==
    /\ runs[r].pc = "idle"
    /\ \A q \in RunIds : runs[q].pc = IF q < r THEN "done" ELSE "idle"
    /\ task = "none"
    /\ runs' = [runs EXCEPT ![r] = NewRun(req, FALSE)]
    /\ UNCHANGED <<now, cfg, backendUp, redis, ret, calls>>
    /\ UNCHANGED streamVars
    /\ UNCHANGED appVars

\* the workflow called on an orchestrator of its own while other calls may
\* be under way (another worker process or thread, all on one Redis
\* server): nothing in the workflow waits for another run
Start(r, req) ==
    /\ runs[r].pc = "idle"
    /\ task = "none"
    /\ runs' = [runs EXCEPT ![r] = NewRun(req, FALSE)]
    /\ UNCHANGED <<now, cfg, backendUp, redis, ret, calls>>
    /\ UNCHANGED streamVars
    /\ UNCHANGED appVars

\* the cache check that opens the workflow
CacheCheck(r) ==
    LET run == runs[r]
        cached == get_analysis(CacheName(run), run.website)
        hit == Truthy(cached) /\ (run.kind = "rag" => ~run.rag)
    IN  /\ run.pc = "check"
        /\ IF run.kind = "base"
           THEN \* get_analysis(competitor_name, competitor_website, niche):
                \* one positional argument too many, outside the try block
                /\ runs' = [runs EXCEPT ![r].pc = "done", ![r].raised = "TypeError"]
                /\ UNCHANGED <<emitted, ready>>
           ELSE IF hit
           THEN /\ runs' = [runs EXCEPT ![r].pc = "done", ![r].result = cached,
                                        ![r].hit = TRUE]
                /\ Emit(r, HitSteps(run))
           ELSE /\ runs' = [runs EXCEPT ![r].pc = "research"]
                /\ Emit(r, StartSteps(run))
        /\ UNCHANGED <<now, cfg, backendUp, redis, ret, calls>>
        /\ UNCHANGED <<sess, queue, cons, client, lastEmit, task, deadline>>
        /\ UNCHANGED appVars

\* the except branch of the workflow: the status update and the error dict
Fail(r, msg, before) ==
    /\ runs' = [runs EXCEPT ![r].pc = "done",
                            ![r].result = ErrorResult(runs[r], msg, now)]
    /\ Emit(r, before \o <<Status("error")>>)

\* Step 1: the researcher agent; enh: enhance_research_with_rag found context
Research(r, out, n, enh) ==
    LET run == runs[r]
    IN  /\ run.pc = "research"
        /\ enh => run.kind = "rag" /\ run.rag /\ out # Failure
        /\ \E tools \in ToolSeqs(n) :
            IF out = Failure
            THEN /\ Fail(r, AgentError, ResearchPre(run) \o tools)
                 /\ calls' = Append(calls, Invocation(r, "researcher", <<run.name, run.website>>, FALSE))
            ELSE /\ runs' = [runs EXCEPT ![r].pc = "analyze",
                                 ![r].research =
                                     IF enh THEN PStr(out[2] \o <<"+history">>) ELSE out]
                 /\ Emit(r, ResearchPre(run) \o tools \o ResearchPost(run))
                 /\ calls' = Append(calls, Invocation(r, "researcher", <<run.name, run.website>>, TRUE))
        /\ UNCHANGED <<now, cfg, backendUp, redis, ret>>
        /\ UNCHANGED <<sess, queue, cons, client, lastEmit, task, deadline>>
        /\ UNCHANGED appVars

\* Step 2: the analyst agent, on the research findings
Analyze(r, out, n) ==
    LET run == runs[r]
    IN  /\ run.pc = "analyze"
        /\ IF out = Failure
           THEN /\ Fail(r, AgentError, AnalysisPre(run) \o Tools(n))
                /\ calls' = Append(calls, Invocation(r, "analyst", <<run.research>>, FALSE))
           ELSE /\ runs' = [runs EXCEPT ![r].pc = "write", ![r].analysis = out]
                /\ Emit(r, AnalysisPre(run) \o Tools(n) \o AnalysisPost(run))
                /\ calls' = Append(calls, Invocation(r, "analyst", <<run.research>>, TRUE))
        /\ UNCHANGED <<now, cfg, backendUp, redis, ret>>
        /\ UNCHANGED <<sess, queue, cons, client, lastEmit, task, deadline>>
        /\ UNCHANGED appVars

\* Step 3: the writer agent, on the research findings and the analysis
Write(r, out, n) ==
    LET run == runs[r]
    IN  /\ run.pc = "write"
        /\ IF out = Failure
           THEN /\ Fail(r, AgentError, ReportPre(run) \o Tools(n))
                /\ calls' = Append(calls, Invocation(r, "writer", <<run.research, run.analysis>>, FALSE))
           ELSE /\ runs' = [runs EXCEPT ![r].pc = "store", ![r].report = out]
                /\ Emit(r, ReportPre(run) \o Tools(n) \o ReportPost(run))
                /\ calls' = Append(calls, Invocation(r, "writer", <<run.research, run.analysis>>, TRUE))
        /\ UNCHANGED <<now, cfg, backendUp, redis, ret>>
        /\ UNCHANGED <<sess, queue, cons, client, lastEmit, task, deadline>>
        /\ UNCHANGED appVars

\* Store on a cache where the first writer wins: a key that is set is left
\* as it is
Store_first_wins(r, ingested) ==
    LET run == runs[r]
        result == SuccessResult(run, run.report, ingested, now)
        s == set_analysis(CacheName(run), result, run.website)
        key == AnalysisKey(CacheName(run), run.website)
    IN  /\ run.pc = "store"
        /\ ~ingested
        /\ runs' = [runs EXCEPT ![r].pc = "done", ![r].result = result,
                                ![r].doneT = now]
        /\ redis' = IF key \in DOMAIN redis THEN redis ELSE s.db
        /\ Emit(r, IF s.ret THEN <<Status("cache_stored")>> ELSE <<>>)
        /\ UNCHANGED <<now, cfg, backendUp, ret, calls>>
        /\ UNCHANGED <<sess, queue, cons, client, lastEmit, task, deadline>>
        /\ UNCHANGED appVars

\* the result is built and cached, and the workflow returns;
\* ingested: rag_system.ingest_competitive_analysis returned True
Store(r, ingested) ==
    LET run == runs[r]
        ragOn == run.kind = "rag" /\ run.rag
        result == SuccessResult(run, run.report, ingested, now)
        s == set_analysis(CacheName(run), result, run.website)
        ragSteps == IF ~ragOn THEN <<>>
                    ELSE IF ingested THEN <<Status("rag_store"), Status("rag_stored")>>
                    ELSE <<Status("rag_store")>>
    IN  /\ run.pc = "store"
        /\ ingested => ragOn
        /\ IF run.kind = "base"
           THEN \* set_analysis(competitor_name, result, competitor_website, niche):
                \* one positional argument too many, inside the try block
                /\ Fail(r, PStr(<<"TypeError">>), <<>>)
                /\ redis' = redis
           ELSE IF s.raised # ""
           THEN /\ Fail(r, PStr(<<s.raised>>), ragSteps)
                /\ redis' = redis
           ELSE /\ runs' = [runs EXCEPT ![r].pc = "done", ![r].result = result,
                                ![r].doneT = now]
                /\ redis' = s.db
                /\ Emit(r, ragSteps \o
                           (IF s.ret THEN <<Status("cache_stored")>> ELSE <<>>))
        /\ UNCHANGED <<now, cfg, backendUp, ret, calls>>
        /\ UNCHANGED <<sess, queue, cons, client, lastEmit, task, deadline>>
        /\ UNCHANGED appVars

----------------------------------------------------------------------------
(* CompetitorDiscoveryAgent.discover_competitors (discovery_agent.py): the *)
(* business idea is validated, the cache is looked up, and the researcher, *)
(* the analyst and the writer are called; a run takes a slot of runs, its  *)
(* name being the business idea.  The texts are chunks of known length:    *)
(* "i9" is a word of 9 characters, "t50" a text of 50, " " one blank.      *)

MinIdeaLen == 10
MaxIdeaLen == 1000
MinFindingsLen == 50
MinReportLen == 100

\* the number of characters of a chunk
CharLen(c) ==
    CASE c = "i9"   -> 9
      [] c = "i10"  -> 10
      [] c = "i990" -> 990
      [] c = "i991" -> 991
      [] c = "t49"  -> 49
      [] c = "t50"  -> 50
      [] c = "t99"  -> 99
      [] c = "t100" -> 100
      [] OTHER      -> 1

\* len(s)
RECURSIVE PyLen(_)
PyLen(s) == IF s = <<>> THEN 0 ELSE CharLen(Head(s)) + PyLen(Tail(s))

\* business_idea of the calls: empty, blank, 9, 10, 1000 and 1001
\* characters once trimmed, with and without blanks around
Ideas ==
    {PStr(<<>>), PStr(<<" ">>),
     PStr(<<"i9">>), PStr(<<" ", "i9", " ">>),
     PStr(<<"i10">>), PStr(<<" ", "i10">>),
     PStr(<<"i990", "i10">>), PStr(<<"i990", "i10", " ">>),
     PStr(<<"i991", "i10">>)}

\* what a discovery agent answers: str(response), one character short of
\* what the stage accepts, or just enough
Findings == {PStr(<<"t49">>), PStr(<<"t50">>)}
DiscoveryReports == {PStr(<<"t99">>), PStr(<<"t100">>)}

\* the input validation measuring the idea as passed, blanks included
IdeaError_untrimmed(business_idea) ==
    IF Strip(business_idea[2]) = <<>>
    THEN <<"Business idea cannot be empty">>
    ELSE IF PyLen(business_idea[2]) < MinIdeaLen
    THEN <<"Business idea too short">>
    ELSE IF PyLen(business_idea[2]) > MaxIdeaLen
    THEN <<"Business idea too long">>
    ELSE <<>>

\* the input validation: the message of the error result, or no message
IdeaError(business_idea) ==
    IF Strip(business_idea[2]) = <<>>
    THEN <<"Business idea cannot be empty">>
    ELSE IF PyLen(Strip(business_idea[2])) < MinIdeaLen
    THEN <<"Business idea too short">>
    ELSE IF PyLen(Strip(business_idea[2])) > MaxIdeaLen
    THEN <<"Business idea too long">>
    ELSE <<>>

\* cache_key = f"discovery:{md5(business_idea)}": the digest is taken as
\* collision-free, so the digested text stands for it
DiscoveryKey(business_idea) == PStr(<<"discovery:">> \o business_idea[2])

\* the error results of discover_competitors
DiscoveryError(business_idea, error_msg, t) ==
    PDict([business_idea |-> business_idea,
           error |-> PStr(error_msg),
           timestamp |-> IsoFormat(t),
           status |-> PStr(<<"error">>),
           workflow |-> PStr(<<"competitor_discovery">>)])

\* the result of a run that got past the research stage
DiscoveryResult(run, t) ==
    PDict([business_idea |-> run.name,
           competitors_found |-> run.research,
           competitive_analysis |-> run.analysis,
           discovery_report |-> run.report,
           timestamp |-> IsoFormat(t),
           status |-> PStr(<<"success">>),
           workflow |-> PStr(<<"competitor_discovery">>)])

\* str(e) of what a stage raises: the agent's exception, or the ValueError
\* of the stage's own length check
StageError(out) ==
    IF out = Failure THEN AgentError[2] ELSE <<"too limited">>

\* strategic_analysis of the except branch of stage 2
FallbackAnalysis(research_findings, out) ==
    PStr(<<"Analysis phase encountered issues: ", "Analysis phase failed: ">>
         \o StageError(out) \o research_findings[2])

\* final_report of the except branch of stage 3
FallbackReport(run, out) ==
    PStr(<<"# Competitor Discovery Report">> \o run.name[2] \o run.research[2]
         \o run.analysis[2]
         \o <<"Report generation failed: ">> \o StageError(out))

\* a stage's answer passes the stage's check
Usable(out, min) == out # Failure /\ PyLen(out[2]) >= min

\* the call discover_competitors(business_idea) up to the first agent:
\* validation, then the cache lookup under the trimmed idea
Discover(r, business_idea) ==
    LET idea == PStr(Strip(business_idea[2]))
        new == [NewRun([kind |-> "discovery", name |-> idea, website |-> PNone,
                        mode |-> "simple", rag |-> FALSE, niche |-> "all"], FALSE)
                EXCEPT !.doneT = now]
        cached_discovery == get_analysis(DiscoveryKey(idea), PNone)
    IN  /\ runs[r].pc = "idle"
        /\ \A q \in RunIds : runs[q].pc = IF q < r THEN "done" ELSE "idle"
        /\ task = "none"
        /\ runs' = [runs EXCEPT ![r] =
              IF IdeaError(business_idea) # <<>>
              THEN [new EXCEPT !.pc = "done",
                               !.name = business_idea,
                               !.result = DiscoveryError(
                                   IF Strip(business_idea[2]) = <<>>
                                   THEN business_idea ELSE idea,
                                   IdeaError(business_idea), now)]
              ELSE IF Truthy(cached_discovery)
              THEN [new EXCEPT !.pc = "done", !.result = cached_discovery,
                               !.hit = TRUE]
              ELSE [new EXCEPT !.pc = "d_research"]]
        /\ UNCHANGED <<now, cfg, backendUp, redis, ret, calls>>
        /\ UNCHANGED streamVars
        /\ UNCHANGED appVars

\* Step 1: the discovery researcher; a failure ends the run
DiscResearch(r, out) ==
    LET run == runs[r]
    IN  /\ run.pc = "d_research"
        /\ calls' = Append(calls, Invocation(r, "researcher", <<run.name>>,
                                             Usable(out, MinFindingsLen)))
        /\ runs' = [runs EXCEPT ![r] =
              IF Usable(out, MinFindingsLen)
              THEN [run EXCEPT !.pc = "d_analyze", !.research = out]
              ELSE [run EXCEPT !.pc = "done", !.doneT = now,
                      !.result = PDict(Merge(
                          DiscoveryError(run.name,
                              <<"Research phase failed: ">> \o StageError(out),
                              now)[2],
                          [competitors_found |-> PStr(<<"Research phase failed">>)]))]]
        /\ UNCHANGED <<now, cfg, backendUp, redis, ret>>
        /\ UNCHANGED streamVars
        /\ UNCHANGED appVars

\* Step 2 ending the run when the analyst fails
DiscAnalyze_aborts(r, out) ==
    LET run == runs[r]
    IN  /\ run.pc = "d_analyze"
        /\ calls' = Append(calls, Invocation(r, "analyst", <<run.research>>,
                                             Usable(out, MinFindingsLen)))
        /\ runs' = [runs EXCEPT ![r] =
              IF Usable(out, MinFindingsLen)
              THEN [run EXCEPT !.pc = "d_write", !.analysis = out]
              ELSE [run EXCEPT !.pc = "done", !.doneT = now,
                      !.result = DiscoveryError(run.name,
                          <<"Analysis phase failed: ">> \o StageError(out), now)]]
        /\ UNCHANGED <<now, cfg, backendUp, redis, ret>>
        /\ UNCHANGED streamVars
        /\ UNCHANGED appVars

\* Step 2: the discovery analyst; a failure is replaced by a basic analysis
DiscAnalyze(r, out) ==
    LET run == runs[r]
    IN  /\ run.pc = "d_analyze"
        /\ calls' = Append(calls, Invocation(r, "analyst", <<run.research>>,
                                             Usable(out, MinFindingsLen)))
        /\ runs' = [runs EXCEPT ![r].pc = "d_write",
                                ![r].analysis =
                                    IF Usable(out, MinFindingsLen) THEN out
                                    ELSE FallbackAnalysis(run.research, out)]
        /\ UNCHANGED <<now, cfg, backendUp, redis, ret>>
        /\ UNCHANGED streamVars
        /\ UNCHANGED appVars

\* Step 3: the discovery writer; a failure is replaced by a fallback report
DiscWrite(r, out) ==
    LET run == runs[r]
    IN  /\ run.pc = "d_write"
        /\ calls' = Append(calls, Invocation(r, "writer",
                                             <<run.research, run.analysis>>,
                                             Usable(out, MinReportLen)))
        /\ runs' = [runs EXCEPT ![r].pc = "d_store",
                                ![r].report =
                                    IF Usable(out, MinReportLen) THEN out
                                    ELSE FallbackReport(run, out)]
        /\ UNCHANGED <<now, cfg, backendUp, redis, ret>>
        /\ UNCHANGED streamVars
        /\ UNCHANGED appVars

\* the result is built and cached; whatever set_analysis raises is caught
DiscStore(r) ==
    LET run == runs[r]
        result == DiscoveryResult(run, now)
        s == set_analysis(DiscoveryKey(run.name), result, PNone)
    IN  /\ run.pc = "d_store"
        /\ runs' = [runs EXCEPT ![r].pc = "done", ![r].result = result,
                                ![r].doneT = now]
        /\ redis' = s.db
        /\ UNCHANGED <<now, cfg, backendUp, ret, calls>>
        /\ UNCHANGED streamVars
        /\ UNCHANGED appVars

----------------------------------------------------------------------------
(* The streaming endpoints: generate_stream (app.py) and                   *)
(* generate_enhanced_stream (enhanced_app.py, enhanced_app_with_modes.py). *)
(* All coroutines run on one event loop thread: ready is the loop's FIFO   *)
(* of callbacks, and a callback runs to its next suspension before the     *)
(* next one starts.  The workflow is a plain synchronous call inside       *)
(* run_analysis, so the task keeps the thread from its first step to its   *)
(* end; tool callbacks are taken to arrive on that thread as well.         *)

\* the loop is free to run the callback at the head of ready
LoopFree == task # "running" /\ cons # "run"

\* a put that queues the events handed to it last first
Put_reversed(q, evs) == q \o [i \in 1..Len(evs) |-> evs[Len(evs) + 1 - i]]

\* events_queue.put(ev) on the unbounded queue: put_nowait, which wakes a
\* consumer suspended in get
Put(q, evs) == q \o evs

WakeConsumer(rdy) ==
    IF cons = "wait"
    THEN Append(rdy, [k |-> "cons", ev |-> NoEvent, why |-> "item"])
    ELSE rdy

\* the first step of the generator: session entry, queue, create_task of
\* run_analysis, and the initial event yielded to the response
StreamStart(req) ==
    /\ cons = "none" /\ task = "none"
    /\ \A r \in RunIds : runs[r].pc = "idle"
    /\ sess' = [status |-> "running", result |-> PNone]
    /\ runs' = [runs EXCEPT ![1] = [NewRun(req, TRUE) EXCEPT !.pc = "idle"]]
    /\ queue' = <<>>
    /\ ready' = Append(ready, [k |-> "task", ev |-> NoEvent, why |-> ""])
    /\ task' = "queued"
    /\ client' = <<SessionStart>>
    /\ lastEmit' = now
    /\ cons' = "run"
    /\ UNCHANGED <<now, cfg, backendUp, redis, ret, calls, emitted, deadline>>
    /\ UNCHANGED appVars

\* the consumer at "event = await asyncio.wait_for(events_queue.get(), 1.0)"
\* and what follows it up to the next suspension; why tells how it resumed
ConsumerStep(why, rdy) ==
    /\ ready' = rdy
    /\ IF why = "timeout"
       THEN \* except asyncio.TimeoutError: the heartbeat is yielded
            /\ client' = Append(client, Heartbeat)
            /\ lastEmit' = now
            /\ cons' = "run"
            /\ UNCHANGED <<queue, deadline>>
       ELSE IF queue = <<>>
       THEN \* get suspends; the timeout is armed
            /\ cons' = "wait"
            /\ deadline' = now + 1
            /\ UNCHANGED <<queue, client, lastEmit>>
       ELSE IF Head(queue) = Sentinel
       THEN \* break, await analysis_task, the generator returns
            /\ cons' = "closed"
            /\ queue' = Tail(queue)
            /\ UNCHANGED <<client, lastEmit, deadline>>
       ELSE \* the event is yielded to the response, or the fallback for it
            /\ cons' = "run"
            /\ queue' = Tail(queue)
            /\ client' = Append(client,
                                IF Serializable(Head(queue).data) THEN Head(queue)
                                ELSE DrainFallback(runs[1].kind, Head(queue)))
            /\ lastEmit' = now
            /\ UNCHANGED deadline

\* the response wrote the chunk without suspending and asks for the next
Continue ==
    /\ cons = "run"
    /\ ConsumerStep("send", ready)
    /\ UNCHANGED <<now, cfg, backendUp, redis, ret, runs, calls>>
    /\ UNCHANGED <<sess, emitted, task>>
    /\ UNCHANGED appVars

\* the response suspends in send (the transport's buffer is full)
SendSuspend ==
    /\ cons = "run"
    /\ cons' = "send"
    /\ UNCHANGED <<now, cfg, backendUp, redis, ret, runs, calls>>
    /\ UNCHANGED <<sess, queue, ready, client, emitted, lastEmit, task, deadline>>
    /\ UNCHANGED appVars

\* the transport drained: the loop makes the consumer ready again
SendDone ==
    /\ cons = "send" /\ task # "running"
    /\ cons' = "woken"
    /\ ready' = Append(ready, [k |-> "cons", ev |-> NoEvent, why |-> "send"])
    /\ UNCHANGED <<now, cfg, backendUp, redis, ret, runs, calls>>
    /\ UNCHANGED <<sess, queue, client, emitted, lastEmit, task, deadline>>
    /\ UNCHANGED appVars

\* the loop resumes the consumer
RunConsumer ==
    /\ LoopFree
    /\ ready # <<>> /\ Head(ready).k = "cons"
    /\ ConsumerStep(Head(ready).why, Tail(ready))
    /\ UNCHANGED <<now, cfg, backendUp, redis, ret, runs, calls>>
    /\ UNCHANGED <<sess, emitted, task>>
    /\ UNCHANGED appVars

\* the loop runs a task that stream_callback created: events_queue.put(event)
RunPut ==
    /\ LoopFree
    /\ ready # <<>> /\ Head(ready).k = "put"
    /\ queue' = Put(queue, <<Head(ready).ev>>)
    /\ ready' = WakeConsumer(Tail(ready))
    /\ cons' = IF cons = "wait" THEN "woken" ELSE cons
    /\ UNCHANGED <<now, cfg, backendUp, redis, ret, runs, calls>>
    /\ UNCHANGED <<sess, client, emitted, lastEmit, task, deadline>>
    /\ UNCHANGED appVars

\* the loop starts run_analysis: the orchestrator is constructed.
\* ok: get_gemini_model finds its API key; rag_ok: the RAG system starts
TaskStart(ok, rag_ok) ==
    LET run == runs[1]
        exc == IF run.kind = "modes" /\ ok
               THEN \* __init__ builds Agent(...), a name the module never imports
                    "NameError"
               ELSE IF ~ok THEN "ValueError" ELSE ""
        evs == IF exc = "" /\ run.kind = "rag" /\ run.rag
               THEN Events(<<Status(IF rag_ok THEN "rag_init" ELSE "rag_warning")>>,
                           Len(emitted))
               ELSE <<>>
    IN  /\ LoopFree
        /\ ready # <<>> /\ Head(ready).k = "task"
        /\ rag_ok \/ (exc = "" /\ run.kind = "rag" /\ run.rag)
        /\ task' = "running"
        /\ runs' = [runs EXCEPT ![1].pc = IF exc = "" THEN "check" ELSE "done",
                                ![1].raised = exc,
                                ![1].rag = run.rag /\ rag_ok]
        /\ emitted' = emitted \o evs
        /\ ready' = stream_callback(run.kind, Tail(ready), evs)
        /\ UNCHANGED <<now, cfg, backendUp, redis, ret, calls>>
        /\ UNCHANGED <<sess, queue, cons, client, lastEmit, deadline>>
        /\ UNCHANGED appVars

\* run_analysis closing with the complete event and then, from an except
\* branch entered after it, the error event as well
Terminal_both(run, result) ==
    <<StreamEvent("complete", result), StreamEvent("error", PStr(<<run.raised>>))>>

\* an earlier call of the workflow, not streamed, has run its three stages
\* and stored its result: the cache as a streaming request may find it
Earlier(req) ==
    LET run == [NewRun(req, FALSE) EXCEPT !.research = PStr(<<"x">>),
                                          !.analysis = PStr(<<"T3">>),
                                          !.report = PStr(<<"r">>)]
        s == set_analysis(CacheName(run),
                          SuccessResult(run, run.report, FALSE, now),
                          run.website)
    IN  /\ req.kind # "base"
        /\ cons = "none" /\ task = "none" /\ redis = <<>>
        /\ s.ret
        /\ redis' = s.db
        /\ UNCHANGED <<now, cfg, backendUp, ret, runs, calls>>
        /\ UNCHANGED streamVars
        /\ UNCHANGED appVars

\* what run_analysis puts before the end-of-stream signal: final_event
\* when the workflow returned, error_event (message str(e)) when the
\* constructor or the workflow raised
Terminal(run, result) ==
    IF run.raised = ""
    THEN <<StreamEvent("complete", result)>>
    ELSE <<StreamEvent("error", PStr(<<run.raised>>))>>

\* the workflow has returned or raised: the terminal event and the
\* end-of-stream signal are put, the session entry is updated, the task ends.
\* ingested: the modes endpoint stored the result in its RAG system
TaskEnd(ingested) ==
    LET run == runs[1]
        result == IF ingested
                  THEN PDict(Merge(run.result[2], [rag_stored |-> PBool(TRUE)]))
                  ELSE run.result
    IN  /\ task = "running" /\ run.pc = "done"
        /\ ingested => /\ run.kind = "modes" /\ run.raised = ""
                       /\ run.result[2]["status"] = PStr(<<"success">>)
        /\ queue' = Put(queue, Terminal(run, result) \o <<Sentinel>>)
        /\ ready' = WakeConsumer(ready)
        /\ cons' = IF cons = "wait" THEN "woken" ELSE cons
        /\ sess' = IF run.raised = ""
                   THEN [status |-> "completed", result |-> result]
                   ELSE [sess EXCEPT !.status = "error"]
        /\ task' = "done"
        /\ UNCHANGED <<now, cfg, backendUp, redis, ret, runs, calls>>
        /\ UNCHANGED <<client, emitted, lastEmit, deadline>>
        /\ UNCHANGED appVars

----------------------------------------------------------------------------
(* The session records of the streaming endpoint, request by request       *)
(* (app.py; enhanced_app.py and enhanced_app_with_modes.py keep theirs the *)
(* same way).  Each streaming request is followed from its arrival to the  *)
(* purge of its session.  run_analysis makes no suspending await (the      *)
(* workflow is a synchronous call, the queue is unbounded), so the loop    *)
(* runs a task from its first step to its last before anything queued      *)
(* after it; tasks run in the order they were created, and a timer or a    *)
(* disconnection is handled only after the tasks already created.          *)

\* the streaming requests followed
StreamIds == {1, 2}

\* await asyncio.sleep(300): the time a session is kept after its stream
GraceSeconds == 300

\* request.competitor_name of the streaming requests; "A" reads "Acme",
\* "b" reads "beta"
SessionNames == {PStr(<<"A">>), PStr(<<"b">>)}

\* session_id: datetime.now() formatted to the second, and the name with
\* "_" for " "
session_id(t, competitor_name) ==
    <<"session", t,
      [i \in 1..Len(competitor_name[2]) |->
          IF competitor_name[2][i] = " " THEN "_" ELSE competitor_name[2][i]]>>

\* the session ids a client may ask for
SessionIds == {session_id(t, n) : t \in 0..MaxNow, n \in SessionNames}

\* a request not yet made
NoStream ==
    [pc |-> "none", sid |-> <<>>, seq |-> 0, ended |-> -1, wake |-> 0,
     yielded |-> 0, how |-> "", fault |-> "", returned |-> FALSE]

\* the tasks created and not yet run
Queued == {s \in StreamIds : gen[s].pc = "queued"}

\* get_session_details: the record, or HTTP 404
get_session_details(sid) ==
    IF sid \notin DOMAIN sessions THEN PInt(404) ELSE PDict(sessions[sid])

\* the request arrives and the generator takes its first step: the session
\* record is written under session_id, run_analysis is made a task, the
\* initial event is yielded
Begin(s, competitor_name) ==
    LET sid == session_id(now, competitor_name)
    IN  /\ gen[s].pc = "none"
        /\ \A q \in StreamIds : q < s => gen[q].pc # "none"
        /\ now <= MaxNow
        /\ sessions' = [x \in DOMAIN sessions \cup {sid} |->
                           IF x = sid
                           THEN [start_time |-> IsoFormat(now),
                                 competitor |-> competitor_name,
                                 status |-> PStr(<<"running">>)]
                           ELSE sessions[x]]
        /\ gen' = [gen EXCEPT ![s] = [pc |-> "queued", sid |-> sid,
                                      seq |-> Cardinality(Queued) + 1,
                                      ended |-> -1, wake |-> 0,
                                      yielded |-> 1, how |-> "", fault |-> "",
                                      returned |-> FALSE]]
        /\ UNCHANGED <<now, cfg, backendUp, redis, ret, runs, calls>>
        /\ UNCHANGED streamVars
        /\ UNCHANGED <<http, query_cache>>

\* the record of sid after run_analysis: completed with the result when the
\* workflow returned (enhanced_app.py), error when the constructor or the
\* workflow raised (app.py: on every run, see C6)
Finished(rec, returned) ==
    IF returned
    THEN [x \in DOMAIN rec \cup {"status", "result"} |->
             IF x = "status" THEN PStr(<<"completed">>)
             ELSE IF x = "result" THEN PStr(<<"result">>)
             ELSE rec[x]]
    ELSE [rec EXCEPT !["status"] = PStr(<<"error">>)]

\* the loop runs the task run_analysis of request s, which takes d seconds:
\* the terminal event and the end-of-stream signal are queued and the
\* status of the session is set; streaming_sessions[session_id] raises
\* KeyError, which nothing in the task handles, if the record is gone
RunAnalysis(s, returned, d) ==
    /\ gen[s].pc = "queued"
    /\ \A q \in Queued : gen[s].seq <= gen[q].seq
    /\ d > 0 => now % GraceSeconds < MaxNow
    /\ now' = now + d
    /\ redis' = Unexpired(redis, now + d)
    /\ sessions' = IF gen[s].sid \in DOMAIN sessions
                   THEN [sessions EXCEPT ![gen[s].sid] = Finished(@, returned)]
                   ELSE sessions
    /\ gen' = [x \in StreamIds |->
                 IF x = s THEN [gen[s] EXCEPT !.pc = "ended", !.seq = 0,
                                              !.ended = now + d,
                                              !.returned = returned,
                                              !.fault =
                                                 IF gen[s].sid \in DOMAIN sessions
                                                 THEN "" ELSE "KeyError"]
                 ELSE IF gen[x].pc = "queued"
                 THEN [gen[x] EXCEPT !.seq = @ - 1]
                 ELSE gen[x]]
    /\ UNCHANGED <<cfg, backendUp, ret, runs, calls>>
    /\ UNCHANGED streamVars
    /\ UNCHANGED <<http, query_cache>>

\* Finally with the cleanup task started at the end of the try block
\* instead of the finally block: a cancelled generator starts none
Finally_drained(s, how) ==
    /\ gen[s].pc = "ended"
    /\ Queued = {}
    /\ gen' = [gen EXCEPT ![s].pc = IF how = "drained" THEN "sleeping" ELSE "closed",
                          ![s].wake = now + GraceSeconds,
                          ![s].how = how,
                          ![s].yielded = IF how = "drained" THEN @ + 1 ELSE @]
    /\ UNCHANGED <<now, cfg, backendUp, redis, ret, runs, calls>>
    /\ UNCHANGED streamVars
    /\ UNCHANGED <<http, query_cache>>
    /\ UNCHANGED sessions

\* the generator of request s is over.  how = "drained": the consumer
\* yielded the terminal event, read the end-of-stream signal and awaited
\* the task.  how = "disconnected": the client went away while the run was
\* in progress; the synchronous workflow held the loop, so the server sees
\* the disconnect once the task is over, and cancels the generator, which
\* yields nothing more.  Either way the finally block starts the cleanup
\* task, which sleeps for the grace period.
Finally(s, how) ==
    /\ gen[s].pc = "ended"
    /\ Queued = {}
    /\ gen' = [gen EXCEPT ![s].pc = "sleeping", ![s].wake = now + GraceSeconds,
                          ![s].how = how,
                          ![s].yielded = IF how = "drained" THEN @ + 1 ELSE @]
    /\ UNCHANGED <<now, cfg, backendUp, redis, ret, runs, calls>>
    /\ UNCHANGED streamVars
    /\ UNCHANGED <<http, query_cache>>
    /\ UNCHANGED sessions

\* the cleanup task of request s wakes: streaming_sessions.pop(session_id, None)
Purge(s) ==
    /\ gen[s].pc = "sleeping"
    /\ Queued = {}
    /\ now >= gen[s].wake
    /\ sessions' = [x \in DOMAIN sessions \ {gen[s].sid} |-> sessions[x]]
    /\ gen' = [gen EXCEPT ![s].pc = "purged"]
    /\ UNCHANGED <<now, cfg, backendUp, redis, ret, runs, calls>>
    /\ UNCHANGED streamVars
    /\ UNCHANGED <<http, query_cache>>

\* GET /sessions/{session_id}
DoLookup(sid) ==
    /\ Queued = {}
    /\ ret' = Op("lookup", get_session_details(sid))
    /\ UNCHANGED <<now, cfg, backendUp, redis, runs, calls>>
    /\ UNCHANGED streamVars
    /\ UNCHANGED appVars

\* the time left until a sleeping cleanup task wakes
WakeDelays ==
    {gen[s].wake - now :
        s \in {x \in StreamIds : gen[x].pc = "sleeping" /\ gen[x].wake > now}}

\* the loop has nothing to run (no task is pending and no generator is
\* waiting to go on after its task) and d seconds pass: one second, or the
\* time until the next cleanup task wakes; an idle loop oversleeps no timer
Elapse(d) ==
    /\ Queued = {}
    /\ \A s \in StreamIds : gen[s].pc # "ended"
    /\ d > 0
    /\ \A w \in WakeDelays : d <= w
    /\ d \in WakeDelays \/ now % GraceSeconds < MaxNow
    /\ now' = now + d
    /\ redis' = Unexpired(redis, now + d)
    /\ UNCHANGED <<cfg, backendUp, ret, runs, calls>>
    /\ UNCHANGED streamVars
    /\ UNCHANGED appVars

----------------------------------------------------------------------------
(* The analysis endpoints that answer with one response: POST /analyze and *)
(* /analyze/stream without stream of app.py, POST /analyze/enhanced of     *)
(* enhanced_app.py, and the four analysis paths of                         *)
(* enhanced_app_with_modes.py.  The requests are handled one after the     *)
(* other; request r runs in slot r of runs.                                *)

\* competitor_name of the requests: a name, blanks only, and the empty text
HttpNames == {PStr(<<"b">>), PStr(<<" ">>), PStr(<<>>)}

\* analysis_mode of the requests, in lower case: the two modes and a text
\* that is no mode
HttpModes == {"simple", "deep", "fast"}

\* the requests: AnalysisRequest of app.py, EnhancedAnalysisRequest of
\* enhanced_app.py (enable_rag false) and of enhanced_app_with_modes.py; a
\* streaming path asked with stream and a valid mode is answered by the
\* generator and is not among them
HttpRequests ==
    {[api |-> "app", path |-> p, name |-> n, mode |-> "simple", stream |-> FALSE] :
        p \in {"/analyze", "/analyze/stream"}, n \in HttpNames}
    \cup
    {[api |-> "rag", path |-> "/analyze/enhanced", name |-> n, mode |-> "simple",
      stream |-> FALSE] : n \in HttpNames}
    \cup
    {q \in [api : {"modes"},
            path : {"/analyze", "/analyze/enhanced", "/analyze/stream",
                    "/analyze/enhanced/stream"},
            name : {PStr(<<"b">>)}, mode : HttpModes, stream : BOOLEAN] :
        ~(q.stream /\ q.path \in {"/analyze/stream", "/analyze/enhanced/stream"}
                   /\ q.mode \in Modes)}

\* AnalysisMode(request.analysis_mode.lower()) raises ValueError
InvalidMode(req) == req.mode \notin Modes

\* the arguments the endpoint hands to the orchestrator
RunRequest(req) ==
    [kind |-> IF req.api = "app" THEN "base" ELSE req.api,
     name |-> req.name, website |-> PNone, mode |-> req.mode, rag |-> FALSE,
     niche |-> "all"]

\* the endpoints of enhanced_app_with_modes.py up to the workflow call:
\* the status of the response.  The streaming endpoint with stream checks
\* the mode outside any try block; analyze_competitor_enhanced checks it
\* inside "try: ... except Exception", which catches the HTTPException(400)
\* and raises HTTPException(500); with a valid mode the constructor of the
\* orchestrator raises NameError (Agent), caught the same way
ModesStatus(req) ==
    IF req.stream /\ req.path \in {"/analyze/stream", "/analyze/enhanced/stream"}
    THEN 400
    ELSE 500

\* every earlier request has been answered
Answered == \A i \in 1..Len(http) : http[i].status # 0

\* request r arrives and its endpoint function runs up to the call of the
\* workflow, or up to the exception that ends it before
Post(r, req) ==
    /\ r = Len(http) + 1 /\ Answered
    /\ runs[r].pc = "idle"
    /\ IF req.api = "modes"
       THEN /\ http' = Append(http, [req |-> req, status |-> ModesStatus(req)])
            /\ runs' = [runs EXCEPT ![r] =
                           [NewRun(RunRequest(req), FALSE) EXCEPT
                               !.pc = "done",
                               !.raised = IF InvalidMode(req) THEN "HTTPException"
                                          ELSE "NameError"]]
       ELSE /\ http' = Append(http, [req |-> req, status |-> 0])
            /\ runs' = [runs EXCEPT ![r] = NewRun(RunRequest(req), FALSE)]
    /\ UNCHANGED <<now, cfg, backendUp, redis, ret, calls>>
    /\ UNCHANGED streamVars
    /\ UNCHANGED <<sessions, gen, query_cache>>

\* the workflow of request r has returned or raised: an exception, or a
\* result with status error, becomes HTTPException(500); a success result
\* is the body of the response
Respond(r) ==
    /\ r = Len(http) /\ http[r].status = 0
    /\ runs[r].pc = "done"
    /\ http' = [http EXCEPT ![r].status =
                   IF runs[r].raised # "" THEN 500
                   ELSE IF runs[r].result[2]["status"] = PStr(<<"error">>) THEN 500
                   ELSE 200]
    /\ UNCHANGED <<now, cfg, backendUp, redis, ret, runs, calls>>
    /\ UNCHANGED streamVars
    /\ UNCHANGED <<sessions, gen, query_cache>>

----------------------------------------------------------------------------
(* The query cache of the RAG system (llamaindex_integration.py): a dict, *)
(* which keeps its keys in insertion order.  A query text is a number     *)
(* that stands for it; query texts and filters hold no "|".               *)

\* self.cache_max_size
cache_max_size == 100

\* how many different query texts are asked beyond the size of the cache
MaxOverflow == 2

\* query: the texts that are asked
RagQueries == 1..(cache_max_size + MaxOverflow)

\* competitor_filter: absent, empty, a competitor, and the text "all"
RagFilters == {PNone, PStr(<<>>), PStr(<<"A">>), PStr(<<"all">>)}

\* str(response) of the query engine
RagAnswers == {"r1", "r2"}

\* cache_key = f"{query}|{competitor_filter or 'all'}"
RagKey(query, competitor_filter) ==
    <<query, "|", IF Truthy(competitor_filter) THEN competitor_filter[2]
                  ELSE <<"all">>>>

\* cache_key in self.query_cache
InCache(cache, cache_key) == \E i \in 1..Len(cache) : cache[i].key = cache_key

\* self.query_cache[cache_key]
Cached(cache, cache_key) ==
    cache[CHOOSE i \in 1..Len(cache) : cache[i].key = cache_key].response

\* self.query_cache[cache_key] = response: a key the dict holds keeps its
\* place, a new key goes to the end
DictSet(cache, cache_key, response) ==
    IF InCache(cache, cache_key)
    THEN [i \in 1..Len(cache) |->
             IF cache[i].key = cache_key
             THEN [key |-> cache_key, response |-> response] ELSE cache[i]]
    ELSE Append(cache, [key |-> cache_key, response |-> response])

\* _cache_query_response evicting the entry inserted last
cache_query_response_newest(cache, cache_key, response) ==
    DictSet(IF Len(cache) >= cache_max_size
            THEN SubSeq(cache, 1, Len(cache) - 1) ELSE cache,
            cache_key, response)

\* _cache_query_response: the dict afterwards
cache_query_response(cache, cache_key, response) ==
    DictSet(IF Len(cache) >= cache_max_size THEN Tail(cache) ELSE cache,
            cache_key, response)

\* the query texts asked so far
Asked == {query_cache[i].key[1] : i \in 1..Len(query_cache)}

\* the queries made in a state.  A text is asked for the first time after
\* the texts of lower number, with no filter; the first text is asked
\* again, with every filter, while the cache is nearly empty and once it is
\* nearly full
NextQueries ==
    {q \in RagQueries : /\ q - 1 \in Asked
                        /\ \A k \in Asked : q > k}
    \cup (IF Len(query_cache) <= 1 \/ Len(query_cache) >= cache_max_size - 1
          THEN {1} ELSE {})

\* query_competitive_intelligence(query, competitor_filter); out is what
\* the query engine answers, Failure when building or running it raises
query_competitive_intelligence(query, competitor_filter, out) ==
    LET cache_key == RagKey(query, competitor_filter)
    IN  /\ IF InCache(query_cache, cache_key)
           THEN /\ ret' = [op |-> "rag_query", key |-> cache_key, engine |-> FALSE,
                           val |-> Cached(query_cache, cache_key)]
                /\ UNCHANGED query_cache
           ELSE IF out = Failure
           THEN /\ ret' = [op |-> "rag_query", key |-> cache_key, engine |-> TRUE,
                           val |-> PStr(<<"Query failed: ">> \o AgentError[2])]
                /\ UNCHANGED query_cache
           ELSE /\ ret' = [op |-> "rag_query", key |-> cache_key, engine |-> TRUE,
                           val |-> out]
                /\ query_cache' = cache_query_response(query_cache, cache_key, out)
        /\ UNCHANGED <<now, cfg, backendUp, redis, runs, calls>>
        /\ UNCHANGED streamVars
        /\ UNCHANGED <<sessions, gen, http>>

\* DELETE /rag/cache: rag_system.query_cache.clear(), once the cache is full
clear_rag_cache ==
    /\ Len(query_cache) >= cache_max_size
    /\ query_cache' = <<>>
    /\ ret' = [op |-> "rag_clear", key |-> <<>>, engine |-> FALSE,
               val |-> PInt(Len(query_cache))]
    /\ UNCHANGED <<now, cfg, backendUp, redis, runs, calls>>
    /\ UNCHANGED streamVars
    /\ UNCHANGED <<sessions, gen, http>>

----------------------------------------------------------------------------
(* Initial state: RedisCache.__init__ has run (enabled, and connected, or  *)
(* not), the keyspace is empty, nothing runs.                              *)

Init ==
    /\ now = 0
    /\ cfg \in {[enabled |-> e, default_ttl |-> c.default_ttl,
                 analysis_ttl |-> c.analysis_ttl] :
                    e \in BOOLEAN, c \in TtlConfigs}
    /\ backendUp = TRUE
    /\ redis = <<>>
    /\ ret = NoOp
    /\ runs = [r \in RunIds |-> IdleRun]
    /\ calls = <<>>
    /\ sess = NoSession
    /\ queue = <<>>
    /\ ready = <<>>
    /\ cons = "none"
    /\ client = <<>>
    /\ emitted = <<>>
    /\ lastEmit = 0
    /\ task = "none"
    /\ deadline = 0
    /\ sessions = <<>>
    /\ gen = [s \in StreamIds |-> NoStream]
    /\ http = <<>>
    /\ query_cache = <<>>

\* The cache used directly, as setup_redis.py and the orchestrators use it.
NextCache ==
    \/ \E n \in Names, w \in Websites, p \in Payloads : DoSetAnalysis(n, w, p)
    \/ \E n \in Names, w \in Websites : DoGetAnalysis(n, w)
    \/ \E n \in Names, w \in Websites : DoDelete(n, w)
    \/ Tick
    \/ BackendFlip

SpecCache == Init /\ [][NextCache]_vars

\* The workflow methods called directly, one call after the other.
NextFlow ==
    \/ \E r \in RunIds, req \in FlowRequests : Call(r, req)
    \/ \E r \in RunIds : CacheCheck(r)
    \/ \E r \in RunIds, out \in Texts \cup {Failure}, enh \in BOOLEAN :
          Research(r, out, 0, enh)
    \/ \E r \in RunIds, out \in Analyses \cup {Failure} : Analyze(r, out, 0)
    \/ \E r \in RunIds, out \in Reports \cup {Failure} : Write(r, out, 0)
    \/ \E r \in RunIds, ingested \in BOOLEAN : Store(r, ingested)
    \/ Tick
    \/ BackendFlip

SpecFlow == Init /\ [][NextFlow]_vars

\* The workflow with modes called twice, under names spelt differently.
NextNames ==
    \/ \E r \in RunIds, req \in NameRequests : Call(r, req)
    \/ \E r \in RunIds : CacheCheck(r)
    \/ \E r \in RunIds, out \in Texts \cup {Failure}, enh \in BOOLEAN :
          Research(r, out, 0, enh)
    \/ \E r \in RunIds, out \in Analyses \cup {Failure} : Analyze(r, out, 0)
    \/ \E r \in RunIds, out \in Reports \cup {Failure} : Write(r, out, 0)
    \/ \E r \in RunIds, ingested \in BOOLEAN : Store(r, ingested)
    \/ Tick
    \/ BackendFlip

SpecNames == Init /\ [][NextNames]_vars

\* One streaming request, from the first step of its generator on.
NextStream ==
    \/ \E req \in StreamRequests : StreamStart(req)
    \/ Continue
    \/ SendSuspend
    \/ SendDone
    \/ RunConsumer
    \/ RunPut
    \/ \E ok \in BOOLEAN, rag_ok \in BOOLEAN : TaskStart(ok, rag_ok)
    \/ CacheCheck(1)
    \/ \E out \in Texts \cup {Failure}, n \in 0..MaxToolCalls, enh \in BOOLEAN :
          Research(1, out, n, enh)
    \/ \E out \in Analyses \cup {Failure} : Analyze(1, out, 0)
    \/ \E out \in Reports \cup {Failure} : Write(1, out, 0)
    \/ \E ingested \in BOOLEAN : Store(1, ingested)
    \/ \E ingested \in BOOLEAN : TaskEnd(ingested)
    \/ Tick

SpecStream == Init /\ [][NextStream]_vars

\* One streaming request whose agents call no tool, with the loop's
\* scheduling: a callback that is ready is run, a call the workflow makes
\* returns or raises, the transport of a connected client drains, and time
\* passes.
NextStreamLive ==
    \/ \E req \in StreamRequests : StreamStart(req)
    \/ Continue
    \/ SendSuspend
    \/ SendDone
    \/ RunConsumer
    \/ RunPut
    \/ \E ok \in BOOLEAN, rag_ok \in BOOLEAN : TaskStart(ok, rag_ok)
    \/ CacheCheck(1)
    \/ \E out \in Texts \cup {Failure} : Research(1, out, 0, FALSE)
    \/ \E out \in Analyses \cup {Failure} : Analyze(1, out, 0)
    \/ \E out \in Reports \cup {Failure} : Write(1, out, 0)
    \/ \E ingested \in BOOLEAN : Store(1, ingested)
    \/ \E ingested \in BOOLEAN : TaskEnd(ingested)
    \/ Tick

SpecStreamLive == Init /\ [][NextStreamLive]_vars /\ WF_vars(NextStreamLive)

\* One streaming request that may find the result of an earlier call in
\* the cache.
NextWarm ==
    \/ \E req \in StreamRequests : Earlier(req)
    \/ NextStream

SpecWarm == Init /\ [][NextWarm]_vars

\* The streaming requests and their sessions: requests arrive during the
\* first MaxNow seconds, a stream lasts at most that long, and the loop's
\* scheduling lets every task, generator and timer that can run, run.
NextSessions ==
    \/ \E s \in StreamIds, n \in SessionNames : Begin(s, n)
    \/ \E s \in StreamIds, returned \in BOOLEAN, d \in {0, 1} :
          RunAnalysis(s, returned, d)
    \/ \E s \in StreamIds, how \in {"drained", "disconnected"} : Finally(s, how)
    \/ \E s \in StreamIds : Purge(s)
    \/ \E sid \in SessionIds : DoLookup(sid)
    \/ \E d \in {1} \cup WakeDelays : Elapse(d)

SpecSessions ==
    /\ Init /\ [][NextSessions]_vars
    /\ WF_vars(\E s \in StreamIds, returned \in BOOLEAN : RunAnalysis(s, returned, 0))
    /\ WF_vars(\E s \in StreamIds, how \in {"drained", "disconnected"} : Finally(s, how))
    /\ WF_vars(\E s \in StreamIds : Purge(s))
    /\ WF_vars(\E d \in {1} \cup WakeDelays : Elapse(d))

\* the streaming requests alone, without lookups
NextDisconnect ==
    \/ \E s \in StreamIds, n \in SessionNames : Begin(s, n)
    \/ \E s \in StreamIds, returned \in BOOLEAN, d \in {0, 1} :
          RunAnalysis(s, returned, d)
    \/ \E s \in StreamIds, how \in {"drained", "disconnected"} : Finally(s, how)
    \/ \E s \in StreamIds : Purge(s)
    \/ \E d \in {1} \cup WakeDelays : Elapse(d)

\* the loop runs every task that is ready and every timer that is due,
\* and time passes
SpecDisconnect ==
    /\ Init /\ [][NextDisconnect]_vars
    /\ WF_vars(\E s \in StreamIds, returned \in BOOLEAN : RunAnalysis(s, returned, 0))
    /\ WF_vars(\E s \in StreamIds, how \in {"drained", "disconnected"} : Finally(s, how))
    /\ WF_vars(\E s \in StreamIds : Purge(s))
    /\ WF_vars(\E d \in {1} \cup WakeDelays : Elapse(d))

\* RedisCache built with caching configured or not, the server reachable
\* or not when the constructor pings it; nothing stored, nothing called.
InitRaw ==
    /\ now = 0
    /\ \E configured \in BOOLEAN, reachable \in BOOLEAN, c \in TtlConfigs :
          /\ cfg = [enabled |-> connect(configured, reachable),
                    default_ttl |-> c.default_ttl,
                    analysis_ttl |-> c.analysis_ttl]
          /\ backendUp = reachable
    /\ redis = <<>>
    /\ ret = NoRawOp
    /\ runs = [r \in RunIds |-> IdleRun]
    /\ calls = <<>>
    /\ sess = NoSession
    /\ queue = <<>>
    /\ ready = <<>>
    /\ cons = "none"
    /\ client = <<>>
    /\ emitted = <<>>
    /\ lastEmit = 0
    /\ task = "none"
    /\ deadline = 0
    /\ sessions = <<>>
    /\ gen = [s \in StreamIds |-> NoStream]
    /\ http = <<>>
    /\ query_cache = <<>>

\* The operations of RedisCache, called in any order on keys of the
\* caller's choice while time passes and the server comes and goes.
NextRaw ==
    \/ \E k \in RawKeys, data \in RawData, ttl \in RawTtls : DoSet(k, data, ttl)
    \/ \E k \in RawKeys : DoGet(k)
    \/ \E k \in RawKeys : DoDel(k)
    \/ \E n \in ClearNames : DoClear(n)
    \/ DoStats
    \/ Tick
    \/ BackendFlip

SpecRaw == InitRaw /\ [][NextRaw]_vars

\* The analysis cache under requests that differ in name and website, all
\* within the time to live of what is stored.
NextKeys ==
    \/ \E n \in Names, w \in KeyWebsites : DoStoreResult(n, w)
    \/ \E n \in Names, w \in KeyWebsites : DoGetAnalysis(n, w)
    \/ \E n \in Names, w \in KeyWebsites : DoDelete(n, w)

SpecKeys == Init /\ [][NextKeys]_vars

\* The analysis cache filled by runs and cleared competitor by competitor.
NextClear ==
    \/ \E n \in Names, w \in KeyWebsites : DoStoreResult(n, w)
    \/ \E n \in Names, w \in KeyWebsites : DoGetAnalysis(n, w)
    \/ \E n \in ClearTargets : DoClearCompetitor(n)

SpecClear == Init /\ [][NextClear]_vars

\* The analysis endpoints answering requests one after the other.
NextHttp ==
    \/ \E r \in RunIds, req \in HttpRequests : Post(r, req)
    \/ \E r \in RunIds : CacheCheck(r)
    \/ \E r \in RunIds, out \in Texts \cup {Failure} : Research(r, out, 0, FALSE)
    \/ \E r \in RunIds, out \in Analyses \cup {Failure} : Analyze(r, out, 0)
    \/ \E r \in RunIds, out \in Reports \cup {Failure} : Write(r, out, 0)
    \/ \E r \in RunIds : Store(r, FALSE)
    \/ \E r \in RunIds : Respond(r)

SpecHttp == Init /\ [][NextHttp]_vars

\* Two calls of the workflow with modes that may overlap, on one cache.
RaceRequests ==
    {[kind |-> "modes", name |-> PStr(<<"b">>), website |-> PNone, mode |-> m,
      rag |-> FALSE, niche |-> "all"] : m \in Modes}

NextRace ==
    \/ \E r \in RunIds, req \in RaceRequests : Start(r, req)
    \/ \E r \in RunIds : CacheCheck(r)
    \/ \E r \in RunIds, out \in Texts \cup {Failure} : Research(r, out, 0, FALSE)
    \/ \E r \in RunIds, out \in Analyses \cup {Failure} : Analyze(r, out, 0)
    \/ \E r \in RunIds, out \in Reports \cup {Failure} : Write(r, out, 0)
    \/ \E r \in RunIds : Store(r, FALSE)
    \/ Tick

SpecRace == Init /\ [][NextRace]_vars

\* discover_competitors called twice in a row, on a cache whose server may
\* stop answering.
NextDiscovery ==
    \/ \E r \in RunIds, idea \in Ideas : Discover(r, idea)
    \/ \E r \in RunIds, out \in Findings \cup {Failure} : DiscResearch(r, out)
    \/ \E r \in RunIds, out \in Findings \cup {Failure} : DiscAnalyze(r, out)
    \/ \E r \in RunIds, out \in DiscoveryReports \cup {Failure} : DiscWrite(r, out)
    \/ \E r \in RunIds : DiscStore(r)
    \/ BackendFlip

SpecDiscovery == Init /\ [][NextDiscovery]_vars

\* extract_metrics_from_analysis on its own, and inside one run of a workflow
\* that reaches it: the analyst's text goes through it before the writer is
\* called.
NextMetrics ==
    \/ \E t \in MetricTexts : DoExtractMetrics(t)
    \/ \E req \in {q \in FlowRequests : q.kind = "rag"} : Call(1, req)
    \/ \E r \in RunIds : CacheCheck(r)
    \/ \E r \in RunIds, out \in Texts \cup {Failure} : Research(r, out, 0, FALSE)
    \/ \E r \in RunIds, out \in MetricAnalyses \cup {Failure} : Analyze(r, out, 0)
    \/ \E r \in RunIds, out \in Reports \cup {Failure} : Write(r, out, 0)
    \/ \E r \in RunIds : Store(r, FALSE)

SpecMetrics == Init /\ [][NextMetrics]_vars

\* the RAG system answering queries one after the other
NextRag ==
    \/ \E q \in NextQueries, f \in RagFilters,
          out \in {PStr(<<a>>) : a \in RagAnswers} \cup {Failure} :
          /\ q # 1 => (f = PNone /\ out # PStr(<<"r2">>))
          /\ query_competitive_intelligence(q, f, out)
    \/ clear_rag_cache

SpecRag == Init /\ [][NextRag]_vars

----------------------------------------------------------------------------
(* Properties of the cache (SpecCache) *)

\* C10: round trip.  While the cache is connected and the server answers,
\* get_analysis(name, website) returns exactly the payload that set_analysis
\* last stored under the key, for as long as the key has neither expired
\* nor been deleted, and misses (returns None) once the key is deleted.
C10_RoundTrip ==
    \A n \in Names, w \in Websites :
        (Connected /\ backendUp) =>
            get_analysis(n, w) =
                IF AnalysisKey(n, w) \in DOMAIN redis
                THEN redis[AnalysisKey(n, w)].src
                ELSE PNone

\* a lookup hit a stored payload, under a name spelt differently or not
C10_Witness ==
    /\ ret.op = "get_analysis"
    /\ \E n \in Names, w \in Websites :
          /\ AnalysisKey(n, w) \in DOMAIN redis
          /\ ret.val = redis[AnalysisKey(n, w)].src
          /\ ret.val \in Payloads

----------------------------------------------------------------------------
(* Properties of the workflows called directly (SpecFlow) *)

Agents == {"researcher", "analyst", "writer"}

\* the agents run r invoked, in order
RunAgents(log, r) ==
    LET RECURSIVE Pick(_)
        Pick(i) == IF i > Len(log) THEN <<>>
                   ELSE IF log[i].run = r THEN <<log[i].agent>> \o Pick(i + 1)
                   ELSE Pick(i + 1)
    IN  Pick(1)

\* how many times the runs of rs invoked agent a
Invoked(log, rs, a) ==
    Cardinality({i \in 1..Len(log) : log[i].run \in rs /\ log[i].agent = a})

\* a field of the dict a run returned; None when there is no such field
Field(run, f) ==
    IF run.result[1] = "dict" /\ f \in DOMAIN run.result[2]
    THEN run.result[2][f] ELSE PNone

Succeeded(run) ==
    run.pc = "done" /\ run.raised = "" /\ Field(run, "status") = PStr(<<"success">>)

SameRequest(a, b) ==
    /\ a.kind = b.kind /\ a.name = b.name
    /\ a.website = b.website /\ a.mode = b.mode

\* C1: idempotence of the workflow with modes.  With the cache connected
\* and the server reachable, when a call checks the cache after an earlier
\* call with the same name, website and mode succeeded, less than the
\* analysis TTL ago, it returns at once with the earlier call's result and
\* the two calls together have invoked each agent exactly once.
C1_Idempotent ==
    [][\A q, r \in RunIds :
         ( /\ q < r
           /\ runs[r].kind = "modes"
           /\ runs[r].pc = "check" /\ runs'[r].pc # "check"
           /\ SameRequest(runs[q], runs[r])
           /\ Succeeded(runs[q])
           /\ Connected /\ backendUp
           /\ now < runs[q].doneT + cfg.analysis_ttl )
         => ( /\ runs'[r].pc = "done"
              /\ runs'[r].raised = ""
              /\ runs'[r].result = runs[q].result
              /\ \A a \in Agents : Invoked(calls', {q, r}, a) = 1 )]_vars

\* a second call with modes answered from the cache what the first returned
C1_Witness ==
    /\ runs[1].kind = "modes" /\ runs[2].kind = "modes"
    /\ SameRequest(runs[1], runs[2])
    /\ Succeeded(runs[1]) /\ ~runs[1].hit
    /\ runs[2].pc = "done" /\ runs[2].hit
    /\ runs[2].result = runs[1].result
    /\ now > runs[1].doneT

\* C6: the base workflow, uncached and with every agent call succeeding,
\* invokes researcher, analyst, writer once each in that order, the analyst
\* on the research output and the writer on both, and returns status
\* success with the three outputs.
C6_BaseThreeStages ==
    \A r \in RunIds :
        ( /\ runs[r].kind = "base" /\ runs[r].pc = "done"
          /\ \A i \in 1..Len(calls) : calls[i].run = r => calls[i].ok )
        => ( /\ runs[r].raised = ""
             /\ Field(runs[r], "status") = PStr(<<"success">>)
             /\ RunAgents(calls, r) = <<"researcher", "analyst", "writer">>
             /\ \A i \in 1..Len(calls) :
                   calls[i].run = r =>
                      calls[i].input =
                         CASE calls[i].agent = "researcher" ->
                                <<runs[r].name, runs[r].website>>
                           [] calls[i].agent = "analyst" ->
                                <<Field(runs[r], "research_findings")>>
                           [] OTHER ->
                                <<Field(runs[r], "research_findings"),
                                  Field(runs[r], "strategic_analysis")>>
             /\ Field(runs[r], "research_findings") \in Texts
             /\ Field(runs[r], "strategic_analysis") \in Analyses
             /\ Field(runs[r], "final_report") \in Reports )

\* C7: when an agent call fails, the run invokes no agent after it and has
\* returned a dict with status error whose error field is the failure
\* message.
C7_FailureStops ==
    \A i \in 1..Len(calls) :
        ~calls[i].ok =>
            /\ \A j \in 1..Len(calls) : (j > i) => calls[j].run # calls[i].run
            /\ runs[calls[i].run].pc = "done"
            /\ runs[calls[i].run].raised = ""
            /\ Field(runs[calls[i].run], "status") = PStr(<<"error">>)
            /\ Field(runs[calls[i].run], "error") = AgentError

\* the analyst failed after the researcher had answered, and the run is over
C7_Witness ==
    \E i \in 1..Len(calls) :
        /\ calls[i].agent = "analyst" /\ ~calls[i].ok
        /\ runs[calls[i].run].pc = "done"
        /\ RunAgents(calls, calls[i].run) = <<"researcher", "analyst">>
        /\ Field(runs[calls[i].run], "status") = PStr(<<"error">>)

\* C8: when the analyst fails, the returned dict holds the researcher's
\* (non-empty) output next to the error, and no final report.
C8_PartialPreserved ==
    \A i \in 1..Len(calls) :
        (calls[i].agent = "analyst" /\ ~calls[i].ok) =>
            /\ Field(runs[calls[i].run], "research_findings") = calls[i].input[1]
            /\ Truthy(Field(runs[calls[i].run], "research_findings"))
            /\ Field(runs[calls[i].run], "final_report") = PNone
            /\ Truthy(Field(runs[calls[i].run], "error"))

----------------------------------------------------------------------------
(* Properties of a streaming run (SpecStream) *)

IsTerminal(e) == e.type \in {"complete", "error"}

\* the stream without its heartbeats
RECURSIVE Real(_)
Real(q) ==
    IF q = <<>> THEN <<>>
    ELSE IF Head(q).type = "heartbeat" THEN Real(Tail(q))
    ELSE <<Head(q)>> \o Real(Tail(q))

\* how many times e occurs in q
Count(q, e) == Cardinality({i \in 1..Len(q) : q[i] = e})

Closed == cons = "closed"

\* C2: when the stream has closed, the client has received session_start,
\* then every event the workflow handed to stream_callback, in the order
\* of emission, then one terminal event, and nothing else but heartbeats.
C2_StreamOrder ==
    Closed =>
        /\ Len(Real(client)) = Len(emitted) + 2
        /\ Head(Real(client)) = SessionStart
        /\ SubSeq(Real(client), 2, Len(emitted) + 1) = emitted
        /\ IsTerminal(Real(client)[Len(emitted) + 2])

\* C3: when the stream has closed, every event handed to stream_callback
\* has been written to the client exactly once, and none is still in the
\* queue or waiting for its put.
C3_ExactlyOnce ==
    Closed =>
        \A i \in 1..Len(emitted) :
            /\ Count(client, emitted[i]) = 1
            /\ Count(queue, emitted[i]) = 0
            /\ \A j \in 1..Len(ready) : ready[j].ev # emitted[i]

C5_Heartbeat ==
    cons \in {"run", "wait", "woken"} => now - lastEmit <= 1

\* C9: when an agent call failed during the streaming run, the terminal
\* event the client received has type error and carries the name of the
\* failing stage and the failure message.
C9_StageErrorEvent ==
    \A i \in 1..Len(calls) :
        (Closed /\ ~calls[i].ok) =>
            /\ client[Len(client)].type = "error"
            /\ client[Len(client)].data =
                  PDict([stage |-> PStr(<<calls[i].agent>>), message |-> AgentError])

----------------------------------------------------------------------------
(* Properties of the cache operations on keys of the caller's choice       *)
(* (SpecRaw)                                                               *)

\* C11: expiry.  Whatever get returns for a key was stored by a set whose
\* time to live has not been exceeded: the entry records when it was
\* stored (cached_at) and for how long (ttl), and at no time does get
\* return an entry stored more than ttl seconds ago, whichever gets came
\* in between.
C11_TtlExpiry ==
    \A k \in RawKeys :
        LET c == cache_get(k)
        IN  Truthy(c) =>
                \E t \in 0..now :
                    /\ c[2].cached_at = IsoFormat(t)
                    /\ ~(now - t > c[2].ttl[2])

\* a key stored with a time to live of 2 seconds and looked up 3 seconds
\* later: the lookup misses
C11_Witness ==
    /\ ret.op = "get"
    /\ ret.val = PNone
    /\ ret.stored.key = ret.key
    /\ ret.stored.ttl = 2
    /\ ret.t = ret.stored.t + 3
    /\ Connected /\ backendUp

----------------------------------------------------------------------------
(* Properties of the analysis keys (SpecKeys) *)

\* a name trimmed, then lower-cased
Norm(name) == Lower(Strip(name[2]))

\* C12: normalization.  Two names that are equal after trimming and
\* lower-casing address the same entry under the same website: they get
\* the same key, a lookup returns the same under either, and a store under
\* either leaves the same keyspace.
C12_SameEntry ==
    \A n1 \in Names, n2 \in Names, w \in KeyWebsites :
        Norm(n1) = Norm(n2) =>
            /\ AnalysisKey(n1, w) = AnalysisKey(n2, w)
            /\ get_analysis(n1, w) = get_analysis(n2, w)
            /\ set_analysis(n1, StoredResult(n1, w), w).db
                 = set_analysis(n2, StoredResult(n1, w), w).db

\* the entry stored for "Acme" without website is what a lookup for
\* "acme " returns
C12_Witness ==
    /\ ret.op = "get_analysis"
    /\ ret.val = StoredResult(PStr(<<"A">>), PNone)
    /\ get_analysis(PStr(<<"a", " ">>), PNone) = ret.val

----------------------------------------------------------------------------
(* Properties of the workflow with modes under names spelt differently     *)
(* (SpecNames)                                                             *)

\* C13: normalization in the orchestrator with modes.  With the cache
\* connected and the server reachable, when a call checks the cache after
\* an earlier call succeeded, less than the analysis TTL ago, for the same
\* website and mode and a name that differs at most in case and in leading
\* or trailing blanks, the call is a cache hit: it returns the earlier
\* call's result and invokes no agent.
C13_ModesSameEntry ==
    [][\A q, r \in RunIds :
         ( /\ q < r
           /\ runs[q].kind = "modes" /\ runs[r].kind = "modes"
           /\ runs[r].pc = "check" /\ runs'[r].pc # "check"
           /\ Norm(runs[q].name) = Norm(runs[r].name)
           /\ runs[q].website = runs[r].website
           /\ runs[q].mode = runs[r].mode
           /\ Succeeded(runs[q])
           /\ Connected /\ backendUp
           /\ now < runs[q].doneT + cfg.analysis_ttl )
         => ( /\ runs'[r].hit
              /\ runs'[r].pc = "done"
              /\ runs'[r].result = runs[q].result
              /\ calls' = calls )]_vars

\* C14: distinctness.  Requests that differ in the normalized name or in
\* the website (taken as given: absent is not empty, "W" is not "w") have
\* different keys, and whatever a lookup returns was stored for a request
\* with the same normalized name and the same website.
C14_DistinctEntries ==
    /\ \A n1 \in Names, n2 \in Names, w1 \in KeyWebsites, w2 \in KeyWebsites :
          (Norm(n1) # Norm(n2) \/ w1 # w2) =>
              AnalysisKey(n1, w1) # AnalysisKey(n2, w2)
    /\ \A n \in Names, w \in KeyWebsites :
          LET v == get_analysis(n, w)
          IN  Truthy(v) => /\ Norm(v[2].competitor) = Norm(n)
                           /\ v[2].website = w

\* "Acme" is cached without website and with the empty website at once;
\* each lookup returns its own entry, and "beta" misses
C14_Witness ==
    /\ get_analysis(PStr(<<"A">>), PNone) # PNone
    /\ get_analysis(PStr(<<"A">>), PStr(<<>>)) # PNone
    /\ get_analysis(PStr(<<"A">>), PNone) # get_analysis(PStr(<<"A">>), PStr(<<>>))
    /\ get_analysis(PStr(<<"b">>), PNone) = PNone
    /\ ret.op = "get_analysis"
    /\ ret.val = get_analysis(PStr(<<"A">>), PStr(<<>>))

----------------------------------------------------------------------------
(* Properties of the base workflow's use of the cache (SpecFlow) *)

\* C15: the focus tag in the key.  The base workflow's cache entry depends
\* on the focus tag: a call with a focus tag gets past its cache check,
\* addressing an entry of its own (the check does not fail on the tag), and
\* a call answered from the cache is never answered with what a call for
\* the same name and website under another focus tag returned.
C15_NicheEntry ==
    \A r \in RunIds :
        (runs[r].kind = "base" /\ runs[r].pc \notin {"idle", "check"}) =>
            /\ runs[r].raised # "TypeError"
            /\ runs[r].hit =>
                 \A q \in RunIds :
                     ( /\ q < r /\ runs[q].kind = "base"
                       /\ runs[q].name = runs[r].name
                       /\ runs[q].website = runs[r].website
                       /\ runs[q].niche # runs[r].niche )
                     => runs[r].result # runs[q].result

\* C16: the cache turned off.  When caching is disabled by configuration
\* or the server did not answer when the cache was built, every operation
\* returns its no-op value without raising and leaves the server alone,
\* whether the server is reachable or not: get and get_analysis miss, set,
\* set_analysis and delete return False, clear_competitor_cache returns 0,
\* get_cache_stats reports enabled false; and the call last made returned
\* such a value.
C16_DisabledNoOp ==
    ~Connected =>
        /\ redis = <<>>
        /\ \A k \in RawKeys :
              /\ cache_get(k) = PNone
              /\ cache_delete(k) = [ret |-> FALSE, db |-> redis]
              /\ \A data \in RawData, ttl \in RawTtls :
                    cache_set(k, data, ttl)
                      = [ret |-> FALSE, raised |-> "", db |-> redis]
        /\ \A n \in Names, w \in Websites :
              /\ get_analysis(n, w) = PNone
              /\ set_analysis(n, StoredResult(n, w), w)
                   = [ret |-> FALSE, raised |-> "", db |-> redis]
        /\ \A n \in ClearNames :
              clear_competitor_cache(n) = [ret |-> PInt(0), db |-> redis]
        /\ get_cache_stats[2].enabled = PBool(FALSE)
        /\ ret.op = "get" => ret.val = PNone
        /\ ret.op \in {"set", "delete"} => ret.val = PBool(FALSE)
        /\ ret.op = "clear" => ret.val = PInt(0)
        /\ ret.op = "stats" => ret.val[2].enabled = PBool(FALSE)

\* the server has not answered since the cache was built, the cache is off,
\* and a set has just returned False
C16_Witness ==
    /\ ~Connected /\ ~backendUp
    /\ ret.op = "set" /\ ret.val = PBool(FALSE)
    /\ ret.t > 0
    /\ redis = <<>>

\* C17: a backend error is swallowed.  With the cache connected, an
\* operation during which the server fails does not raise: get returns a
\* miss, set and delete return False; and no set ever made has raised.
C17_BackendErrorSwallowed ==
    /\ (Connected /\ ~backendUp) =>
          \A k \in RawKeys :
              /\ cache_get(k) = PNone
              /\ cache_delete(k) = [ret |-> FALSE, db |-> redis]
              /\ \A data \in RawData, ttl \in RawTtls :
                    cache_set(k, data, ttl)
                      = [ret |-> FALSE, raised |-> "", db |-> redis]
    /\ ret.op = "set" => ret.val \in {PBool(TRUE), PBool(FALSE)}

----------------------------------------------------------------------------
(* Properties of the workflows when the cache fails (SpecFlow) *)

\* the three stages of run r were invoked, in order, and each returned
StagesSucceeded(log, r) ==
    /\ RunAgents(log, r) = <<"researcher", "analyst", "writer">>
    /\ \A i \in 1..Len(log) : log[i].run = r => log[i].ok

\* C18: the cache may fail, the run may not.  Whether the cache is off, or
\* the server stops answering at the cache check or at the store, a run
\* whose three stages succeeded returns status success with the outputs of
\* the three stages.
C18_DegradedSucceeds ==
    \A r \in RunIds :
        (runs[r].pc = "done" /\ StagesSucceeded(calls, r)) =>
            /\ runs[r].raised = ""
            /\ Field(runs[r], "status") = PStr(<<"success">>)
            /\ Field(runs[r], "research_findings") = runs[r].research
            /\ Field(runs[r], "strategic_analysis") = runs[r].analysis
            /\ Field(runs[r], "final_report") = runs[r].report

\* C19: idempotence of the RAG workflow.  With enable_rag true, the cache
\* connected and the server reachable, when a call checks the cache after
\* an earlier call for the same competitor and website succeeded, less
\* than the analysis TTL ago, it returns at the cache check with the
\* cached payload and invokes no agent.
C19_RagIdempotent ==
    [][\A q, r \in RunIds :
         ( /\ q < r
           /\ runs[q].kind = "rag" /\ runs[q].rag
           /\ runs[r].kind = "rag" /\ runs[r].rag
           /\ runs[r].pc = "check" /\ runs'[r].pc # "check"
           /\ SameRequest(runs[q], runs[r])
           /\ Succeeded(runs[q])
           /\ Connected /\ backendUp
           /\ now < runs[q].doneT + cfg.analysis_ttl )
         => ( /\ runs'[r].pc = "done"
              /\ runs'[r].hit
              /\ runs'[r].result = runs[q].result
              /\ calls' = calls )]_vars

----------------------------------------------------------------------------
(* Properties of a stream served from the cache (SpecWarm) *)

\* C20: a cache hit in a stream.  When the streamed run checks the cache,
\* connected and reachable, and the cache holds an entry for its request,
\* the run is over at the check: it has emitted one event, the cache-hit
\* status, invoked no agent, and returns the cached payload; and when the
\* stream of such a run closes, the client has been sent, last, the
\* complete event carrying that payload.
C20_StreamCacheHit ==
    [][ /\ ( /\ runs[1].cb
             /\ runs[1].pc = "check" /\ runs'[1].pc # "check"
             /\ Connected /\ backendUp
             /\ Truthy(get_analysis(CacheName(runs[1]), runs[1].website)) )
           => ( /\ runs'[1].pc = "done" /\ runs'[1].hit
                /\ runs'[1].raised = ""
                /\ runs'[1].result
                     = get_analysis(CacheName(runs[1]), runs[1].website)
                /\ calls' = calls
                /\ Len(emitted') = 1
                /\ emitted'[1].step = "cache_hit" )
        /\ ( /\ runs[1].cb /\ runs[1].hit
             /\ cons # "closed" /\ cons' = "closed" )
           => ( /\ client'[Len(client')] = StreamEvent("complete", runs[1].result)
                /\ Len(emitted') = 1
                /\ calls' = <<>> )
      ]_vars

----------------------------------------------------------------------------
(* Properties of the store at the end of a run (SpecFlow) *)

\* C21: write-through.  When a run whose three stages succeeded stores its
\* result, the cache connected and the server reachable, the cache then
\* holds under the run's key exactly the wrapped result the run returns,
\* expiring after the analysis TTL (not the default TTL), whatever was
\* under that key before; a lookup for the run's request returns it.
C21_WriteThrough ==
    [][\A r \in RunIds :
         ( /\ runs[r].pc = "store" /\ runs'[r].pc = "done"
           /\ StagesSucceeded(calls, r)
           /\ Connected /\ backendUp )
         => LET key == AnalysisKey(CacheName(runs[r]), runs[r].website)
            IN  /\ Succeeded(runs'[r])
                /\ key \in DOMAIN redis'
                /\ redis'[key].src = runs'[r].result
                /\ redis'[key].val =
                     json_dumps(PDict([data |-> runs'[r].result,
                                       cached_at |-> IsoFormat(now),
                                       ttl |-> PInt(cfg.analysis_ttl)]))
                /\ redis'[key].exp = now + cfg.analysis_ttl
                /\ cfg.analysis_ttl # cfg.default_ttl
                /\ \A k \in DOMAIN redis' \ {key} :
                      k \in DOMAIN redis /\ redis'[k] = redis[k]
       ]_vars

\* a second run for the same request, made after the first's entry was
\* stored, has replaced that entry by its own result
C21_Witness ==
    /\ Succeeded(runs[1]) /\ ~runs[1].hit
    /\ Succeeded(runs[2]) /\ ~runs[2].hit
    /\ runs[1].kind = "rag" /\ SameRequest(runs[1], runs[2])
    /\ runs[1].result # runs[2].result
    /\ runs[2].doneT < runs[1].doneT + cfg.analysis_ttl
    /\ LET key == AnalysisKey(CacheName(runs[2]), runs[2].website)
       IN  /\ key \in DOMAIN redis
           /\ redis[key].src = runs[2].result
           /\ redis[key].exp = runs[2].doneT + cfg.analysis_ttl

----------------------------------------------------------------------------
(* Properties of the end of a stream (SpecStreamLive) *)

\* C22: terminal event, then sentinel.  Whichever way the orchestrator
\* task ends, a terminal event in the queue is directly followed by the
\* end-of-stream signal; once the client has been sent the terminal event
\* the signal is the next thing the consumer reads, and the stream closes
\* only after a terminal event; and once the task has ended the stream
\* closes.
C22_TerminalThenSentinel ==
    /\ [](/\ \A i \in 1..Len(queue) :
                IsTerminal(queue[i]) =>
                    (i < Len(queue) /\ queue[i + 1] = Sentinel)
          /\ (task = "done" /\ ~Closed /\ client # <<>>
                /\ IsTerminal(client[Len(client)]))
               => (queue # <<>> /\ Head(queue) = Sentinel)
          /\ Closed => (task = "done" /\ IsTerminal(client[Len(client)])))
    /\ (task = "done") ~> Closed

\* the orchestrator's construction or the workflow raised, the error event
\* was sent and the stream closed
C22_Witness ==
    /\ Closed /\ task = "done"
    /\ runs[1].raised # ""
    /\ client[Len(client)].type = "error"
    /\ sess.status = "error"

----------------------------------------------------------------------------
(* Properties of the session records (SpecSessions) *)

\* the status of a session record
StatusOf(rec) == rec["status"][2][1]

\* C23: the status of a session is monotone.  A session id that appears in
\* streaming_sessions appears with status running; from running the status
\* may go to completed or to error; a status completed or error never
\* changes again while the session is kept.
C23_StatusMonotone ==
    [][ /\ \A sid \in DOMAIN sessions' \ DOMAIN sessions :
              StatusOf(sessions'[sid]) = "running"
        /\ \A sid \in DOMAIN sessions \cap DOMAIN sessions' :
              /\ StatusOf(sessions[sid]) \in {"completed", "error"}
                    => StatusOf(sessions'[sid]) = StatusOf(sessions[sid])
              /\ StatusOf(sessions'[sid]) \in {"running", "completed", "error"}
      ]_vars


\* the requests whose run has terminated
Terminated == {s \in StreamIds : gen[s].pc \in {"ended", "sleeping", "purged"}}

\* C24: grace period.  From the moment a streaming run terminates until
\* 300 seconds later the lookup of its session id returns the record, a
\* lookup of an id that is not in the table answers 404, and every session
\* created is removed in the end.
C24_GracePeriod ==
    /\ [](/\ \A s \in Terminated :
               now < gen[s].ended + GraceSeconds
               => get_session_details(gen[s].sid) # PInt(404)
          /\ \A sid \in SessionIds \ {gen[s].sid : s \in StreamIds} :
               get_session_details(sid) = PInt(404))
    /\ \A s \in StreamIds :
          (gen[s].pc = "queued")
          ~> (gen[s].pc = "purged" /\ get_session_details(gen[s].sid) = PInt(404))


\* the requests whose client went away during the run
Disconnected == {s \in StreamIds : gen[s].how = "disconnected"}

\* C25: disconnect.  After the client of a running stream has gone, the
\* generator yields nothing more; the task run_analysis ends without a
\* fault; the session is not left running (once no task is pending its
\* status is completed or error); and the record is removed, no earlier
\* than the cleanup task's timeout allows, and never comes back.
C25_Disconnect ==
    /\ [][\A s \in Disconnected : gen'[s].yielded = gen[s].yielded]_vars
    /\ [](\A s \in StreamIds : gen[s].fault = "")
    /\ [](\A s \in Disconnected :
            /\ (Queued = {} /\ gen[s].sid \in DOMAIN sessions)
               => StatusOf(sessions[gen[s].sid]) \in {"completed", "error"}
            /\ gen[s].pc = "purged" => now >= gen[s].wake)
    /\ \A s \in StreamIds :
          (s \in Disconnected)
          ~> [](gen[s].pc = "purged" /\ gen[s].sid \notin DOMAIN sessions)

\* a request whose client went away has been served: its run ended in
\* error, its generator yielded the initial event only, and its record was
\* removed 300 seconds after the generator ended
C25_Witness ==
    \E s \in Disconnected :
        /\ gen[s].pc = "purged" /\ gen[s].yielded = 1 /\ gen[s].fault = ""
        /\ now = gen[s].ended + GraceSeconds
        /\ gen[s].sid \notin DOMAIN sessions


\* e is a fallback event for ev: it stands in ev's place, carries a
\* message and names the type ev declared
IsFallbackFor(e, ev) ==
    /\ e.seq = ev.seq /\ e # ev
    /\ e.data[1] = "str" /\ e.data[2] # <<>>
    /\ "original_type" \in DOMAIN e /\ e["original_type"] = ev.type

\* C26: serialization fallback.  When the stream is over, every event the
\* orchestrator emitted that json.dumps cannot encode has reached the
\* client as exactly one fallback event with a message and the event's own
\* type, never as itself, and every encodable event emitted after it has
\* reached the client too.
C26_SerializationFallback ==
    Closed =>
        \A i \in 1..Len(emitted) :
            ~Serializable(emitted[i].data)
            => /\ Cardinality({j \in 1..Len(client) :
                                  IsFallbackFor(client[j], emitted[i])}) = 1
               /\ Count(client, emitted[i]) = 0
               /\ \A k \in (i + 1)..Len(emitted) :
                     Serializable(emitted[k].data) => Count(client, emitted[k]) = 1


\* the keys under which the analyses of a competitor are stored
EntriesOf(name) == {AnalysisKey(name, w) : w \in KeyWebsites}

\* C27: clear by competitor.  A call clear_competitor_cache(name) on a
\* connected cache removes every stored analysis of that competitor, so
\* that get_analysis(name, w) misses for each website w it was stored for,
\* and leaves every other entry as it was.
C27_ClearExact ==
    [][(ret'.op = "clear" /\ ret' # ret /\ Connected /\ backendUp)
       => \A k \in DOMAIN redis :
             IF k \in EntriesOf(ret'.name)
             THEN k \notin DOMAIN redis'
             ELSE k \in DOMAIN redis' /\ redis'[k] = redis[k]]_vars


----------------------------------------------------------------------------
(* Properties of the analysis endpoints (SpecHttp) *)

\* the requests whose competitor name is empty once trimmed
BlankRequests == {r \in 1..Len(http) : Strip(http[r].req.name[2]) = <<>>}

\* C28: empty name.  A request whose competitor name is empty after
\* trimming never enters the workflow: no cache lookup is made for it, no
\* agent is invoked, nothing is stored under its key, and its response,
\* once sent, is a client error.
C28_BlankRejected ==
    \A r \in BlankRequests :
        /\ runs[r].pc \notin {"check", "research", "analyze", "write", "store"}
        /\ ~runs[r].hit
        /\ \A i \in 1..Len(calls) : calls[i].run # r
        /\ AnalysisKey(CacheName(runs[r]), runs[r].website) \notin DOMAIN redis
        /\ http[r].status # 0 => http[r].status \in 400..499

\* C29: status classes of the mode-aware API.  A request to any of its
\* analysis paths whose analysis_mode is neither simple nor deep is
\* answered 4xx, with stream or without; a request of any API whose
\* workflow ended in a stage failure is answered 5xx.
C29_StatusClasses ==
    \A r \in 1..Len(http) :
        http[r].status # 0
        => /\ (http[r].req.api = "modes" /\ InvalidMode(http[r].req))
               => http[r].status \in 400..499
           /\ (runs[r].raised = "" /\ runs[r].result[2]["status"] = PStr(<<"error">>))
               => http[r].status \in 500..599


----------------------------------------------------------------------------
(* Properties of overlapping runs (SpecRace) *)

\* the entry set_analysis writes for a result at time t
EntryOf(result, t) ==
    json_dumps(PDict([data |-> result, cached_at |-> IsoFormat(t),
                      ttl |-> PInt(cfg.analysis_ttl)]))

\* C30: unlocked check, compute, store.  When a run stores its result
\* while another run of the same request, which missed the cache as well,
\* has already stored its own, both runs have invoked the three agents and
\* both end with status success, and the cache holds under the request's
\* key exactly the later run's payload, whole.
C30_LastWriteWhole ==
    [][\A r \in RunIds, q \in RunIds :
         ( /\ r # q
           /\ runs[r].pc = "store" /\ runs'[r].pc = "done"
           /\ Succeeded(runs[q]) /\ ~runs[q].hit
           /\ SameRequest(runs[r], runs[q])
           /\ StagesSucceeded(calls, r)
           /\ Connected /\ backendUp )
         => LET key == AnalysisKey(CacheName(runs[r]), runs[r].website)
            IN  /\ Succeeded(runs'[r]) /\ ~runs'[r].hit
                /\ Succeeded(runs'[q])
                /\ StagesSucceeded(calls, q)
                /\ key \in DOMAIN redis'
                /\ redis'[key].src = runs'[r].result
                /\ redis'[key].val = EntryOf(runs'[r].result, now) ]_vars

\* two runs of one request overlapped: the second stored its result while
\* the first one's entry was still live, yet it had missed the cache; the
\* payloads differ and the cache holds the second one
C30_Witness ==
    /\ Connected /\ runs[1].kind = "modes"
    /\ Succeeded(runs[1]) /\ ~runs[1].hit
    /\ Succeeded(runs[2]) /\ ~runs[2].hit
    /\ SameRequest(runs[1], runs[2])
    /\ runs[1].result # runs[2].result
    /\ runs[1].doneT < runs[2].doneT
    /\ runs[2].doneT < runs[1].doneT + cfg.analysis_ttl
    /\ LET key == AnalysisKey(CacheName(runs[2]), runs[2].website)
       IN  key \in DOMAIN redis /\ redis[key].val = EntryOf(runs[2].result, runs[2].doneT)


----------------------------------------------------------------------------
(* Further properties of the session records (SpecSessions) *)

\* the requests whose session record has been created and not yet purged
\* by their own cleanup task
LiveStreams == {s \in StreamIds : gen[s].pc \in {"queued", "ended", "sleeping"}}

\* C31: one record per request.  No two requests that are live at the same
\* time have the same session id, and a step of one request (its start,
\* the end of its run, its purge) leaves the record of every other live
\* request as it was.
C31_DistinctSessions ==
    /\ [](\A s \in LiveStreams, q \in LiveStreams :
             s # q => gen[s].sid # gen[q].sid)
    /\ [][\A s \in StreamIds :
            (gen'[s] # gen[s])
            => \A q \in LiveStreams \ {s} :
                  /\ gen[q].sid \in DOMAIN sessions => gen[q].sid \in DOMAIN sessions'
                  /\ (gen[q].sid \in DOMAIN sessions /\ gen'[q] = gen[q])
                     => sessions'[gen[q].sid] = sessions[gen[q].sid]]_vars


----------------------------------------------------------------------------
(* Further properties of the streaming run (SpecStream) *)

\* C32: status follows outcome.  Once run_analysis is over, the session's
\* status is error if the run failed (the constructor or the workflow
\* raised, or the workflow returned a result with status error) and it is
\* completed only if the workflow returned a result with status success.
C32_StatusReflectsOutcome ==
    task = "done"
    => /\ ~Succeeded(runs[1]) => sess.status = "error"
       /\ sess.status = "completed" => Succeeded(runs[1])


----------------------------------------------------------------------------
(* Properties of the discovery workflow (SpecDiscovery) *)

\* C33: a run writes to the result cache only if every one of its three
\* stages succeeded: a step of a run that adds or replaces a cache entry is
\* the step of a run whose researcher, analyst and writer all answered with
\* a usable text, none of them replaced by a fallback.
C33_StoreOnlyAfterThreeStages ==
    [][\A r \in RunIds :
          (/\ runs'[r] # runs[r]
           /\ \E k \in DOMAIN redis' : k \notin DOMAIN redis \/ redis'[k] # redis[k])
          => StagesSucceeded(calls', r)]_vars


\* the discovery runs that have started
Discoveries == {r \in RunIds : runs[r].kind = "discovery" /\ runs[r].pc # "idle"}

\* C35: discover_competitors rejects an invalid business idea before any
\* work starts: an idea that is empty or blank, shorter than 10 characters
\* or longer than 1000 characters once trimmed, gives a result with status
\* error, not taken from the cache, with no agent invoked and no cache entry
\* written under the idea.
C35_InvalidIdeaRejected ==
    \A r \in Discoveries :
        (\/ Strip(runs[r].name[2]) = <<>>
         \/ PyLen(Strip(runs[r].name[2])) < MinIdeaLen
         \/ PyLen(Strip(runs[r].name[2])) > MaxIdeaLen)
        => /\ runs[r].pc = "done"
           /\ Field(runs[r], "status") = PStr(<<"error">>)
           /\ ~runs[r].hit
           /\ RunAgents(calls, r) = <<>>
           /\ AnalysisKey(DiscoveryKey(PStr(Strip(runs[r].name[2]))), PNone)
                  \notin DOMAIN redis

\* with a result in the cache, an idea of 9 characters between blanks and
\* an idea of 1001 characters have been rejected
C35_Witness ==
    /\ DOMAIN redis # {}
    /\ \E r \in Discoveries :
          /\ runs[r].name \in {PStr(<<" ", "i9", " ">>), PStr(<<"i991", "i10">>)}
          /\ runs[r].pc = "done"
          /\ Field(runs[r], "status") = PStr(<<"error">>)

\* the discovery agents that failed in run r
FailedAgents(log, r) ==
    {log[i].agent : i \in {j \in 1..Len(log) : log[j].run = r /\ ~log[j].ok}}

\* C36: in discover_competitors only a research failure fails the run: the
\* run then ends with status error and neither analyst nor writer is
\* invoked.  After an analyst failure the writer is invoked with a fallback
\* analysis text, after a writer failure the report is a fallback report,
\* and in both cases the run returns status success.
C36_OnlyResearchFails ==
    \A r \in Discoveries :
        /\ "researcher" \in FailedAgents(calls, r)
           => /\ runs[r].pc = "done"
              /\ Field(runs[r], "status") = PStr(<<"error">>)
              /\ RunAgents(calls, r) = <<"researcher">>
        /\ ("analyst" \in FailedAgents(calls, r) /\ runs[r].pc \in {"d_store", "done"})
           => \E i \in 1..Len(calls) :
                 /\ calls[i].run = r /\ calls[i].agent = "writer"
                 /\ calls[i].input[2] \notin Findings
                 /\ Head(calls[i].input[2][2]) = "Analysis phase encountered issues: "
        /\ ("writer" \in FailedAgents(calls, r) /\ runs[r].pc = "done")
           => /\ Field(runs[r], "discovery_report") \notin DiscoveryReports
              /\ Head(Field(runs[r], "discovery_report")[2])
                    = "# Competitor Discovery Report"
        /\ (runs[r].pc = "done" /\ ~runs[r].hit /\ RunAgents(calls, r) # <<>>)
           => (Field(runs[r], "status") = PStr(<<"success">>)
               <=> "researcher" \notin FailedAgents(calls, r))

\* a run whose analyst and writer both failed has returned status success
C36_Witness ==
    \E r \in Discoveries :
        /\ FailedAgents(calls, r) = {"analyst", "writer"}
        /\ runs[r].pc = "done"
        /\ Field(runs[r], "status") = PStr(<<"success">>)


----------------------------------------------------------------------------
(* Properties of the sessions: the record of a delivered run *)

\* the requests whose client has been sent the complete event: the workflow
\* returned and the consumer drained the queue to the end-of-stream signal
Delivered == {s \in StreamIds : gen[s].how = "drained" /\ gen[s].returned}

\* C34: whenever the consumer has sent the complete event of a run to the
\* client, the session record of the run, as long as it has not been
\* purged, has status completed and holds the result: a lookup made after
\* complete was received never shows status running.
C34_CompleteAfterRecord ==
    \A s \in Delivered :
        gen[s].sid \in DOMAIN sessions
        => /\ StatusOf(sessions[gen[s].sid]) = "completed"
           /\ "result" \in DOMAIN sessions[gen[s].sid]


----------------------------------------------------------------------------
(* Properties of the metric extraction (SpecMetrics) *)

\* the labels that match somewhere in the text
MatchedFields(text) ==
    {MetricReading(text[i]).field : i \in 1..Len(text)} \ {""}

----------------------------------------------------------------------------
(* Properties of the cache entries kept per mode (SpecFlow) *)

\* the run as the other mode would make it
OtherMode(run) ==
    [run EXCEPT !.mode = IF run.mode = "simple" THEN "deep" ELSE "simple"]

\* C38: in the orchestrator with modes the cache entry belongs to the mode.
\* The simple and the deep analysis of one competitor and website are kept
\* under different keys, an entry stored by a run holds a result of the
\* run's own mode, and a result taken from the cache was made in the mode
\* of the request that gets it.
C38_ModeSpecificEntry ==
    \A r \in RunIds :
        (runs[r].kind = "modes" /\ runs[r].pc # "idle")
        => /\ AnalysisKey(CacheName(runs[r]), runs[r].website)
                 # AnalysisKey(CacheName(OtherMode(runs[r])), runs[r].website)
           /\ AnalysisKey(CacheName(runs[r]), runs[r].website) \in DOMAIN redis
              => redis[AnalysisKey(CacheName(runs[r]), runs[r].website)]
                     .src[2]["analysis_mode"] = PStr(<<runs[r].mode>>)
           /\ runs[r].hit
              => Field(runs[r], "analysis_mode") = PStr(<<runs[r].mode>>)

\* after a simple analysis of a competitor was stored, a deep request for
\* the same competitor missed the cache, ran its agents and stored its own
\* result next to the first
C38_Witness ==
    /\ runs[1].kind = "modes" /\ runs[2].kind = "modes"
    /\ runs[1].name = runs[2].name /\ runs[1].website = runs[2].website
    /\ runs[1].mode = "simple" /\ runs[2].mode = "deep"
    /\ Succeeded(runs[1]) /\ Succeeded(runs[2])
    /\ ~runs[2].hit
    /\ AnalysisKey(CacheName(runs[1]), runs[1].website) \in DOMAIN redis
    /\ AnalysisKey(CacheName(runs[2]), runs[2].website) \in DOMAIN redis


----------------------------------------------------------------------------
(* Properties of the RAG query cache (SpecRag) *)

\* the query just answered failed
QueryFailed(r) ==
    r.engine /\ r.val # Failure /\ r.val[2] # <<>> /\ Head(r.val[2]) = "Query failed: "

\* C39: the RAG query cache is bounded, with the oldest entry evicted
\* first.  The cache never holds more than cache_max_size responses; a
\* response cached while the cache is full takes the place of exactly the
\* entry inserted first, the others keeping their order; a query whose key
\* is in the cache is answered with the cached response without the query
\* engine being run; a query that failed leaves the cache as it was.
C39_QueryCacheBounded ==
    /\ [](Len(query_cache) <= cache_max_size)
    /\ [][ret'.op = "rag_query"
          => /\ InCache(query_cache, ret'.key)
                => /\ ~ret'.engine
                   /\ ret'.val = Cached(query_cache, ret'.key)
                   /\ query_cache' = query_cache
             /\ query_cache' # query_cache
                => /\ ~InCache(query_cache, ret'.key)
                   /\ ret'.engine
                   /\ query_cache' =
                         Append(IF Len(query_cache) = cache_max_size
                                THEN Tail(query_cache) ELSE query_cache,
                                [key |-> ret'.key, response |-> ret'.val])
             /\ QueryFailed(ret') => query_cache' = query_cache
          ]_vars

\* the cache is full, the response to text 101 was cached last, and the
\* entry of text 1, the first inserted, is the one that went
C39_Witness ==
    /\ Len(query_cache) = cache_max_size
    /\ query_cache[1].key = RagKey(2, PNone)
    /\ query_cache[cache_max_size].key = RagKey(cache_max_size + 1, PNone)
    /\ ret.op = "rag_query" /\ ret.engine
    /\ ret.key = RagKey(cache_max_size + 1, PNone)

====
